---- MODULE Spec2Model ----
(***************************************************************************)
(* A state-machine model of util::crypto::cipher, the unified symmetric    *)
(* cipher facade of atframe_utils (src/src/algorithm/crypto_cipher.cpp).   *)
(*                                                                         *)
(* One cipher object lives at a time.  The preprocessor configuration of   *)
(* the build and the cipher names the caller uses are drawn once in the    *)
(* initial state and never change.  Every public method is one action; its *)
(* body is translated from the method's code, with the outcome of each     *)
(* back-end call that can fail drawn nondeterministically where the code   *)
(* cannot decide it.                                                       *)
(***************************************************************************)
EXTENDS Integers, Sequences, FiniteSets, TLC

(***************************************************************************)
(* Bounds of the model.                                                    *)
(***************************************************************************)
\* contexts the back-end heap can hold at once
MaxContexts == 2

(***************************************************************************)
(* enum cipher_interface_method_t                                          *)
(***************************************************************************)
EN_CIMT_INVALID == 0
EN_CIMT_XXTEA == 1
EN_CIMT_INNER == 2
EN_CIMT_CIPHER == 3
EN_CIMT_LIBSODIUM == 4
EN_CIMT_LIBSODIUM_CHACHA20 == 5
EN_CIMT_LIBSODIUM_CHACHA20_IETF == 6
EN_CIMT_LIBSODIUM_XCHACHA20 == 7
EN_CIMT_LIBSODIUM_SALSA20 == 8
EN_CIMT_LIBSODIUM_XSALSA20 == 9
EN_CIMT_LIBSODIUM_CHACHA20_POLY1305 == 10
EN_CIMT_LIBSODIUM_CHACHA20_POLY1305_IETF == 11
EN_CIMT_LIBSODIUM_XCHACHA20_POLY1305_IETF == 12

\* a NULL char pointer (distinct from every string, the empty one included)
NULLSTR == <<"NULL">>

(***************************************************************************)
(* The table details::supported_ciphers, one record per initializer, in    *)
(* source order.  ifdef names the preprocessor condition that guards the   *)
(* entry.  kt is not a field of the source table: it is what the generic   *)
(* back-end's cipher handle (cipher_kt_t) reports for the entry once       *)
(* resolved (key length in bits, IV length, block size, kind of mode).     *)
(***************************************************************************)
supported_ciphers_all ==
  <<
    [name |-> <<"x","x","t","e","a">>, method |-> EN_CIMT_XXTEA,
     openssl_name |-> NULLSTR, mbedtls_name |-> <<"x","x","t","e","a">>,
     flags |-> {}, ifdef |-> "always",
     kt |-> [key_bits |-> 0, iv_length |-> 0, block_size |-> 0, kind |-> "none"]],
    [name |-> <<"r","c","4">>, method |-> EN_CIMT_CIPHER,
     openssl_name |-> NULLSTR, mbedtls_name |-> <<"A","R","C","4","-","1","2","8">>,
     flags |-> {}, ifdef |-> "always",
     kt |-> [key_bits |-> 128, iv_length |-> 0, block_size |-> 1, kind |-> "stream"]],
    [name |-> <<"a","e","s","-","1","2","8","-","c","f","b">>, method |-> EN_CIMT_CIPHER,
     openssl_name |-> NULLSTR, mbedtls_name |-> <<"A","E","S","-","1","2","8","-","C","F","B","1","2","8">>,
     flags |-> {}, ifdef |-> "always",
     kt |-> [key_bits |-> 128, iv_length |-> 16, block_size |-> 1, kind |-> "stream"]],
    [name |-> <<"a","e","s","-","1","9","2","-","c","f","b">>, method |-> EN_CIMT_CIPHER,
     openssl_name |-> NULLSTR, mbedtls_name |-> <<"A","E","S","-","1","9","2","-","C","F","B","1","2","8">>,
     flags |-> {}, ifdef |-> "always",
     kt |-> [key_bits |-> 192, iv_length |-> 16, block_size |-> 1, kind |-> "stream"]],
    [name |-> <<"a","e","s","-","2","5","6","-","c","f","b">>, method |-> EN_CIMT_CIPHER,
     openssl_name |-> NULLSTR, mbedtls_name |-> <<"A","E","S","-","2","5","6","-","C","F","B","1","2","8">>,
     flags |-> {}, ifdef |-> "always",
     kt |-> [key_bits |-> 256, iv_length |-> 16, block_size |-> 1, kind |-> "stream"]],
    [name |-> <<"a","e","s","-","1","2","8","-","c","t","r">>, method |-> EN_CIMT_CIPHER,
     openssl_name |-> NULLSTR, mbedtls_name |-> <<"A","E","S","-","1","2","8","-","C","T","R">>,
     flags |-> {}, ifdef |-> "always",
     kt |-> [key_bits |-> 128, iv_length |-> 16, block_size |-> 1, kind |-> "stream"]],
    [name |-> <<"a","e","s","-","1","9","2","-","c","t","r">>, method |-> EN_CIMT_CIPHER,
     openssl_name |-> NULLSTR, mbedtls_name |-> <<"A","E","S","-","1","9","2","-","C","T","R">>,
     flags |-> {}, ifdef |-> "always",
     kt |-> [key_bits |-> 192, iv_length |-> 16, block_size |-> 1, kind |-> "stream"]],
    [name |-> <<"a","e","s","-","2","5","6","-","c","t","r">>, method |-> EN_CIMT_CIPHER,
     openssl_name |-> NULLSTR, mbedtls_name |-> <<"A","E","S","-","2","5","6","-","C","T","R">>,
     flags |-> {}, ifdef |-> "always",
     kt |-> [key_bits |-> 256, iv_length |-> 16, block_size |-> 1, kind |-> "stream"]],
    [name |-> <<"a","e","s","-","1","2","8","-","e","c","b">>, method |-> EN_CIMT_CIPHER,
     openssl_name |-> NULLSTR, mbedtls_name |-> <<"A","E","S","-","1","2","8","-","E","C","B">>,
     flags |-> {"ENCRYPT_NO_PADDING", "DECRYPT_NO_PADDING"}, ifdef |-> "always",
     kt |-> [key_bits |-> 128, iv_length |-> 0, block_size |-> 16, kind |-> "block"]],
    [name |-> <<"a","e","s","-","1","9","2","-","e","c","b">>, method |-> EN_CIMT_CIPHER,
     openssl_name |-> NULLSTR, mbedtls_name |-> <<"A","E","S","-","1","9","2","-","E","C","B">>,
     flags |-> {"ENCRYPT_NO_PADDING", "DECRYPT_NO_PADDING"}, ifdef |-> "always",
     kt |-> [key_bits |-> 192, iv_length |-> 0, block_size |-> 16, kind |-> "block"]],
    [name |-> <<"a","e","s","-","2","5","6","-","e","c","b">>, method |-> EN_CIMT_CIPHER,
     openssl_name |-> NULLSTR, mbedtls_name |-> <<"A","E","S","-","2","5","6","-","E","C","B">>,
     flags |-> {"ENCRYPT_NO_PADDING", "DECRYPT_NO_PADDING"}, ifdef |-> "always",
     kt |-> [key_bits |-> 256, iv_length |-> 0, block_size |-> 16, kind |-> "block"]],
    [name |-> <<"a","e","s","-","1","2","8","-","c","b","c">>, method |-> EN_CIMT_CIPHER,
     openssl_name |-> NULLSTR, mbedtls_name |-> <<"A","E","S","-","1","2","8","-","C","B","C">>,
     flags |-> {"ENCRYPT_NO_PADDING", "DECRYPT_NO_PADDING"}, ifdef |-> "always",
     kt |-> [key_bits |-> 128, iv_length |-> 16, block_size |-> 16, kind |-> "block"]],
    [name |-> <<"a","e","s","-","1","9","2","-","c","b","c">>, method |-> EN_CIMT_CIPHER,
     openssl_name |-> NULLSTR, mbedtls_name |-> <<"A","E","S","-","1","9","2","-","C","B","C">>,
     flags |-> {"ENCRYPT_NO_PADDING", "DECRYPT_NO_PADDING"}, ifdef |-> "always",
     kt |-> [key_bits |-> 192, iv_length |-> 16, block_size |-> 16, kind |-> "block"]],
    [name |-> <<"a","e","s","-","2","5","6","-","c","b","c">>, method |-> EN_CIMT_CIPHER,
     openssl_name |-> NULLSTR, mbedtls_name |-> <<"A","E","S","-","2","5","6","-","C","B","C">>,
     flags |-> {"ENCRYPT_NO_PADDING", "DECRYPT_NO_PADDING"}, ifdef |-> "always",
     kt |-> [key_bits |-> 256, iv_length |-> 16, block_size |-> 16, kind |-> "block"]],
    [name |-> <<"d","e","s","-","e","c","b">>, method |-> EN_CIMT_CIPHER,
     openssl_name |-> NULLSTR, mbedtls_name |-> <<"D","E","S","-","E","C","B">>,
     flags |-> {"ENCRYPT_NO_PADDING", "DECRYPT_NO_PADDING"}, ifdef |-> "always",
     kt |-> [key_bits |-> 64, iv_length |-> 0, block_size |-> 8, kind |-> "block"]],
    [name |-> <<"d","e","s","-","c","b","c">>, method |-> EN_CIMT_CIPHER,
     openssl_name |-> NULLSTR, mbedtls_name |-> <<"D","E","S","-","C","B","C">>,
     flags |-> {"ENCRYPT_NO_PADDING", "DECRYPT_NO_PADDING"}, ifdef |-> "always",
     kt |-> [key_bits |-> 64, iv_length |-> 8, block_size |-> 8, kind |-> "block"]],
    [name |-> <<"d","e","s","-","e","d","e">>, method |-> EN_CIMT_CIPHER,
     openssl_name |-> NULLSTR, mbedtls_name |-> <<"D","E","S","-","E","D","E","-","E","C","B">>,
     flags |-> {"ENCRYPT_NO_PADDING", "DECRYPT_NO_PADDING"}, ifdef |-> "always",
     kt |-> [key_bits |-> 128, iv_length |-> 0, block_size |-> 8, kind |-> "block"]],
    [name |-> <<"d","e","s","-","e","d","e","-","c","b","c">>, method |-> EN_CIMT_CIPHER,
     openssl_name |-> NULLSTR, mbedtls_name |-> <<"D","E","S","-","E","D","E","-","C","B","C">>,
     flags |-> {"ENCRYPT_NO_PADDING", "DECRYPT_NO_PADDING"}, ifdef |-> "always",
     kt |-> [key_bits |-> 128, iv_length |-> 8, block_size |-> 8, kind |-> "block"]],
    [name |-> <<"d","e","s","-","e","d","e","3">>, method |-> EN_CIMT_CIPHER,
     openssl_name |-> NULLSTR, mbedtls_name |-> <<"D","E","S","-","E","D","E","3","-","E","C","B">>,
     flags |-> {"ENCRYPT_NO_PADDING", "DECRYPT_NO_PADDING"}, ifdef |-> "always",
     kt |-> [key_bits |-> 192, iv_length |-> 0, block_size |-> 8, kind |-> "block"]],
    [name |-> <<"d","e","s","-","e","d","e","3","-","c","b","c">>, method |-> EN_CIMT_CIPHER,
     openssl_name |-> NULLSTR, mbedtls_name |-> <<"D","E","S","-","E","D","E","3","-","C","B","C">>,
     flags |-> {"ENCRYPT_NO_PADDING", "DECRYPT_NO_PADDING"}, ifdef |-> "always",
     kt |-> [key_bits |-> 192, iv_length |-> 8, block_size |-> 8, kind |-> "block"]],
    [name |-> <<"b","f","-","c","b","c">>, method |-> EN_CIMT_CIPHER,
     openssl_name |-> NULLSTR, mbedtls_name |-> <<"B","L","O","W","F","I","S","H","-","C","B","C">>,
     flags |-> {"ENCRYPT_NO_PADDING", "DECRYPT_NO_PADDING"}, ifdef |-> "always",
     kt |-> [key_bits |-> 128, iv_length |-> 8, block_size |-> 8, kind |-> "block"]],
    [name |-> <<"b","f","-","c","f","b">>, method |-> EN_CIMT_CIPHER,
     openssl_name |-> NULLSTR, mbedtls_name |-> <<"B","L","O","W","F","I","S","H","-","C","F","B","6","4">>,
     flags |-> {}, ifdef |-> "always",
     kt |-> [key_bits |-> 128, iv_length |-> 8, block_size |-> 1, kind |-> "stream"]],
    [name |-> <<"c","a","m","e","l","l","i","a","-","1","2","8","-","c","f","b">>, method |-> EN_CIMT_CIPHER,
     openssl_name |-> NULLSTR, mbedtls_name |-> <<"C","A","M","E","L","L","I","A","-","1","2","8","-","C","F","B","1","2","8">>,
     flags |-> {}, ifdef |-> "always",
     kt |-> [key_bits |-> 128, iv_length |-> 16, block_size |-> 1, kind |-> "stream"]],
    [name |-> <<"c","a","m","e","l","l","i","a","-","1","9","2","-","c","f","b">>, method |-> EN_CIMT_CIPHER,
     openssl_name |-> NULLSTR, mbedtls_name |-> <<"C","A","M","E","L","L","I","A","-","1","9","2","-","C","F","B","1","2","8">>,
     flags |-> {}, ifdef |-> "always",
     kt |-> [key_bits |-> 192, iv_length |-> 16, block_size |-> 1, kind |-> "stream"]],
    [name |-> <<"c","a","m","e","l","l","i","a","-","2","5","6","-","c","f","b">>, method |-> EN_CIMT_CIPHER,
     openssl_name |-> NULLSTR, mbedtls_name |-> <<"C","A","M","E","L","L","I","A","-","2","5","6","-","C","F","B","1","2","8">>,
     flags |-> {}, ifdef |-> "always",
     kt |-> [key_bits |-> 256, iv_length |-> 16, block_size |-> 1, kind |-> "stream"]],
    [name |-> <<"c","h","a","c","h","a","2","0">>, method |-> EN_CIMT_CIPHER,
     openssl_name |-> NULLSTR, mbedtls_name |-> <<"C","H","A","C","H","A","2","0">>,
     flags |-> {}, ifdef |-> "cc",
     kt |-> [key_bits |-> 256, iv_length |-> 16, block_size |-> 1, kind |-> "stream"]],
    [name |-> <<"c","h","a","c","h","a","2","0">>, method |-> EN_CIMT_LIBSODIUM_CHACHA20,
     openssl_name |-> NULLSTR, mbedtls_name |-> <<"C","H","A","C","H","A","2","0">>,
     flags |-> {}, ifdef |-> "sodium",
     kt |-> [key_bits |-> 0, iv_length |-> 0, block_size |-> 0, kind |-> "none"]],
    [name |-> <<"c","h","a","c","h","a","2","0","-","i","e","t","f">>, method |-> EN_CIMT_LIBSODIUM_CHACHA20_IETF,
     openssl_name |-> NULLSTR, mbedtls_name |-> <<"C","H","A","C","H","A","2","0","-","I","E","T","F">>,
     flags |-> {}, ifdef |-> "sodium",
     kt |-> [key_bits |-> 0, iv_length |-> 0, block_size |-> 0, kind |-> "none"]],
    [name |-> <<"x","c","h","a","c","h","a","2","0">>, method |-> EN_CIMT_LIBSODIUM_XCHACHA20,
     openssl_name |-> NULLSTR, mbedtls_name |-> <<"X","C","H","A","C","H","A","2","0">>,
     flags |-> {}, ifdef |-> "sodium",
     kt |-> [key_bits |-> 0, iv_length |-> 0, block_size |-> 0, kind |-> "none"]],
    [name |-> <<"s","a","l","s","a","2","0">>, method |-> EN_CIMT_LIBSODIUM_SALSA20,
     openssl_name |-> NULLSTR, mbedtls_name |-> <<"S","A","L","S","A","2","0">>,
     flags |-> {}, ifdef |-> "sodium",
     kt |-> [key_bits |-> 0, iv_length |-> 0, block_size |-> 0, kind |-> "none"]],
    [name |-> <<"x","s","a","l","s","a","2","0">>, method |-> EN_CIMT_LIBSODIUM_XSALSA20,
     openssl_name |-> NULLSTR, mbedtls_name |-> <<"X","S","A","L","S","A","2","0">>,
     flags |-> {}, ifdef |-> "sodium",
     kt |-> [key_bits |-> 0, iv_length |-> 0, block_size |-> 0, kind |-> "none"]],
    [name |-> <<"a","e","s","-","1","2","8","-","g","c","m">>, method |-> EN_CIMT_CIPHER,
     openssl_name |-> NULLSTR, mbedtls_name |-> <<"A","E","S","-","1","2","8","-","G","C","M">>,
     flags |-> {"AEAD", "VARIABLE_IV_LEN"}, ifdef |-> "always",
     kt |-> [key_bits |-> 128, iv_length |-> 12, block_size |-> 1, kind |-> "gcm"]],
    [name |-> <<"a","e","s","-","1","9","2","-","g","c","m">>, method |-> EN_CIMT_CIPHER,
     openssl_name |-> NULLSTR, mbedtls_name |-> <<"A","E","S","-","1","9","2","-","G","C","M">>,
     flags |-> {"AEAD", "VARIABLE_IV_LEN"}, ifdef |-> "always",
     kt |-> [key_bits |-> 192, iv_length |-> 12, block_size |-> 1, kind |-> "gcm"]],
    [name |-> <<"a","e","s","-","2","5","6","-","g","c","m">>, method |-> EN_CIMT_CIPHER,
     openssl_name |-> NULLSTR, mbedtls_name |-> <<"A","E","S","-","2","5","6","-","G","C","M">>,
     flags |-> {"AEAD", "VARIABLE_IV_LEN"}, ifdef |-> "always",
     kt |-> [key_bits |-> 256, iv_length |-> 12, block_size |-> 1, kind |-> "gcm"]],
    [name |-> <<"c","h","a","c","h","a","2","0","-","p","o","l","y","1","3","0","5","-","i","e","t","f">>, method |-> EN_CIMT_CIPHER,
     openssl_name |-> <<"c","h","a","c","h","a","2","0","-","p","o","l","y","1","3","0","5">>, mbedtls_name |-> <<"C","H","A","C","H","A","2","0","-","P","O","L","Y","1","3","0","5">>,
     flags |-> {"AEAD", "VARIABLE_IV_LEN"}, ifdef |-> "cp",
     kt |-> [key_bits |-> 256, iv_length |-> 12, block_size |-> 1, kind |-> "chachapoly"]],
    [name |-> <<"c","h","a","c","h","a","2","0","-","p","o","l","y","1","3","0","5">>, method |-> EN_CIMT_LIBSODIUM_CHACHA20_POLY1305,
     openssl_name |-> NULLSTR, mbedtls_name |-> <<"C","H","A","C","H","A","2","0","-","P","O","L","Y","1","3","0","5">>,
     flags |-> {"AEAD"}, ifdef |-> "sodium",
     kt |-> [key_bits |-> 0, iv_length |-> 0, block_size |-> 0, kind |-> "none"]],
    [name |-> <<"c","h","a","c","h","a","2","0","-","p","o","l","y","1","3","0","5","-","i","e","t","f">>, method |-> EN_CIMT_LIBSODIUM_CHACHA20_POLY1305_IETF,
     openssl_name |-> NULLSTR, mbedtls_name |-> <<"C","H","A","C","H","A","2","0","-","P","O","L","Y","1","3","0","5","-","I","E","T","F">>,
     flags |-> {"AEAD"}, ifdef |-> "sodium",
     kt |-> [key_bits |-> 0, iv_length |-> 0, block_size |-> 0, kind |-> "none"]],
    [name |-> <<"x","c","h","a","c","h","a","2","0","-","p","o","l","y","1","3","0","5","-","i","e","t","f">>, method |-> EN_CIMT_LIBSODIUM_XCHACHA20_POLY1305_IETF,
     openssl_name |-> NULLSTR, mbedtls_name |-> <<"X","C","H","A","C","H","A","2","0","-","P","O","L","Y","1","3","0","5","-","I","E","T","F">>,
     flags |-> {"AEAD"}, ifdef |-> "sodium",
     kt |-> [key_bits |-> 0, iv_length |-> 0, block_size |-> 0, kind |-> "none"]]
  >>

(***************************************************************************)
(* The descriptor table as laid out in the binary: what a dereference of   *)
(* interface_ or of a cipher handle reads.  Never written.                 *)
(***************************************************************************)
VARIABLE supported_ciphers


(***************************************************************************)
(* Build configurations: which generic back-end is compiled in, and the    *)
(* macros derived from its version (lines 44-66) and from libsodium.       *)
(* CRYPTO_USE_CHACHA20_WITH_CIPHER is never defined without                *)
(* CRYPTO_USE_CHACHA20_POLY1305_WITH_CIPHER, and neither with mbedtls.     *)
(***************************************************************************)
Builds ==
  { b \in [generic : {"openssl", "mbedtls"}, chacha20_with_cipher : BOOLEAN,
           chacha20_poly1305_with_cipher : BOOLEAN, libsodium : BOOLEAN] :
      /\ b.chacha20_with_cipher => b.chacha20_poly1305_with_cipher
      /\ b.generic = "mbedtls" => ~b.chacha20_poly1305_with_cipher }

\* whether table entry i is compiled into build b
Compiled(b, i) ==
  LET c == supported_ciphers_all[i].ifdef IN
    CASE c = "always" -> TRUE
      [] c = "cc" -> b.chacha20_with_cipher
      [] c = "cp" -> b.chacha20_poly1305_with_cipher
      [] c = "sodium" -> b.libsodium

\* interface->method and interface->flags: reads of the table in memory
Method(i) == IF i = 0 THEN EN_CIMT_INVALID ELSE supported_ciphers[i].method
Flags(i) == IF i = 0 THEN {} ELSE supported_ciphers[i].flags

UpperChars == <<"A","B","C","D","E","F","G","H","I","J","K","L","M",
                "N","O","P","Q","R","S","T","U","V","W","X","Y","Z">>
LowerChars == <<"a","b","c","d","e","f","g","h","i","j","k","l","m",
                "n","o","p","q","r","s","t","u","v","w","x","y","z">>

tolower(c) ==
  IF \E k \in DOMAIN UpperChars : UpperChars[k] = c
    THEN LowerChars[CHOOSE k \in DOMAIN UpperChars : UpperChars[k] = c]
    ELSE c

\* a comparison that tells letter cases apart (a faulty variant, for
\* comparison)
STRCMP_EQ(a, b) == a = b

\* 0 == UTIL_STRFUNC_STRCASE_CMP(a, b)
STRCASE_EQ(a, b) ==
  /\ Len(a) = Len(b)
  /\ \A k \in 1..Len(a) : tolower(a[k]) = tolower(b[k])

\* a scan that keeps the last match instead of the first (a faulty variant,
\* for comparison)
RECURSIVE scan_ciphers_down(_, _, _, _)
scan_ciphers_down(b, name, i, j) ==
  IF j < i THEN 0
  ELSE IF Compiled(b, j) /\ STRCASE_EQ(name, supported_ciphers_all[j].name) THEN j
  ELSE scan_ciphers_down(b, name, i, j - 1)
scan_ciphers_last(b, name, i) == scan_ciphers_down(b, name, i, Len(supported_ciphers_all))

\* the for loop of get_cipher_interface_by_name, from entry i on
RECURSIVE scan_ciphers(_, _, _)
scan_ciphers(b, name, i) ==
  IF i > Len(supported_ciphers_all) THEN 0
  ELSE IF Compiled(b, i) /\ STRCASE_EQ(name, supported_ciphers_all[i].name) THEN i
  ELSE scan_ciphers(b, name, i + 1)

\* index of the first compiled entry whose name matches; 0 is NULL
get_cipher_interface_by_name(b, name) ==
  IF name = NULLSTR THEN 0 ELSE scan_ciphers(b, name, 1)

(***************************************************************************)
(* The generic back-end's name lookup.  A name resolves when the linked    *)
(* library has a cipher of that name (the library of build b has the       *)
(* ciphers of the CIPHER entries compiled into b) and, with the EVP-style  *)
(* back-end, the catalogue has been registered (registered is set by       *)
(* init_global_algorithm and cleared by cleanup_global_algorithm).  The    *)
(* handle returned is the index of the entry that carries the cipher's kt. *)
(***************************************************************************)
LibraryName(i, field) ==
  IF field = "mbedtls" THEN supported_ciphers_all[i].mbedtls_name
  ELSE IF supported_ciphers_all[i].openssl_name = NULLSTR
    THEN supported_ciphers_all[i].name
    ELSE supported_ciphers_all[i].openssl_name

RECURSIVE LibraryFind(_, _, _, _)
LibraryFind(b, field, libname, i) ==
  IF i > Len(supported_ciphers_all) THEN 0
  ELSE IF /\ Compiled(b, i)
          /\ supported_ciphers_all[i].method = EN_CIMT_CIPHER
          /\ LibraryName(i, field) = libname
    THEN i
  ELSE LibraryFind(b, field, libname, i + 1)

EVP_get_cipherbyname(b, reg, libname) ==
  IF reg THEN LibraryFind(b, "openssl", libname, 1) ELSE 0

mbedtls_cipher_info_from_string(b, libname) == LibraryFind(b, "mbedtls", libname, 1)

get_cipher_by_name(b, reg, name) ==
  LET interface == get_cipher_interface_by_name(b, name) IN
    IF interface = 0 THEN 0
    ELSE IF b.generic = "openssl"
      THEN IF supported_ciphers_all[interface].openssl_name = NULLSTR
             THEN EVP_get_cipherbyname(b, reg, supported_ciphers_all[interface].name)
             ELSE EVP_get_cipherbyname(b, reg, supported_ciphers_all[interface].openssl_name)
      ELSE mbedtls_cipher_info_from_string(b, supported_ciphers_all[interface].mbedtls_name)

\* the names callers pass to init
InitNames ==
  { NULLSTR, <<>>,
    <<"x","x","t","e","a">>, <<"X","x","T","e","A">>,
    <<"a","e","s","-","1","2","8","-","c","b","c">>,
    <<"a","e","s","-","2","5","6","-","g","c","m">>,
    <<"c","h","a","c","h","a","2","0">>,
    <<"x","c","h","a","c","h","a","2","0">>,
    <<"c","h","a","c","h","a","2","0","-","p","o","l","y","1","3","0","5","-","i","e","t","f">>,
    <<"n","o","-","s","u","c","h">> }

\* the two lookups tabulated once, for every build, over the names that occur
\* (@@ makes the table an explicit function)
TableNames == { supported_ciphers_all[i].name : i \in DOMAIN supported_ciphers_all }
interface_by_name ==
  [p \in Builds \X (InitNames \cup TableNames) |-> get_cipher_interface_by_name(p[1], p[2])] @@ <<>>
cipher_by_name ==
  [p \in Builds \X BOOLEAN \X DOMAIN supported_ciphers_all |->
     get_cipher_by_name(p[1], p[2], supported_ciphers_all[p[3]].name)] @@ <<>>

(***************************************************************************)
(* cipher::get_all_cipher_names.  The list is built once, into a static    *)
(* vector, and every later call returns that vector as it is.              *)
(***************************************************************************)
\* a listing that leaves the built-in entries out (a faulty variant, for
\* comparison)
pushes_name_skip_inner(b, reg, i) ==
  /\ Compiled(b, i)
  /\ \/ /\ supported_ciphers_all[i].method = EN_CIMT_CIPHER
        /\ cipher_by_name[<<b, reg, i>>] # 0
     \/ supported_ciphers_all[i].method > EN_CIMT_LIBSODIUM

\* whether the loop body pushes the name of entry i
pushes_name(b, reg, i) ==
  /\ Compiled(b, i)
  /\ \/ supported_ciphers_all[i].method < EN_CIMT_INNER
     \/ /\ supported_ciphers_all[i].method = EN_CIMT_CIPHER
        /\ cipher_by_name[<<b, reg, i>>] # 0
     \/ supported_ciphers_all[i].method > EN_CIMT_LIBSODIUM

\* the for loop, from entry i on
RECURSIVE scan_names(_, _, _)
scan_names(b, reg, i) ==
  IF i > Len(supported_ciphers_all) THEN <<>>
  ELSE (IF pushes_name(b, reg, i) THEN <<supported_ciphers_all[i].name>> ELSE <<>>)
         \o scan_names(b, reg, i + 1)

\* the static vector after the call, cached being the vector before it
get_all_cipher_names(cached, b, reg) ==
  IF cached = <<>> THEN scan_names(b, reg, 1) ELSE cached

(***************************************************************************)
(* The cipher object and the back-end heap.                                *)
(***************************************************************************)
NULLPTR == 0
\* a pointer member the constructor did not initialize
UNINIT == -1

\* byte counts of the key storage of the in-process methods
XXTEA_KEY_BYTES == 16
LIBSODIUM_KEY_BYTES == 32

Zeros(n) == [k \in 1..n |-> 0]

\* what ERR_peek_error() / a failing mbedtls call report
ERR_peek_error == 101
MBEDTLS_ERR == -24704

Handles == 1..MaxContexts
SetMin(S) == CHOOSE x \in S : \A y \in S : x <= y
FreeCtx == [live |-> FALSE, key |-> <<>>]

\* cipher::cipher(): interface_, last_errorno_ and cipher_kt_ are set; the
\* context union (enc/dec pointers, key bytes) is left as it is
NewCipher ==
  [interface_ |-> NULLPTR, last_errorno_ |-> 0, cipher_kt_ |-> NULLPTR,
   iv_ |-> <<>>, enc |-> UNINIT, dec |-> UNINIT,
   key |-> [k \in 1..LIBSODIUM_KEY_BYTES |-> UNINIT]]

\* a setup_errorno that stores nothing (a faulty variant, for comparison)
setup_errorno_keep(ci, err) == ci

\* details::setup_errorno: store err, return ret
setup_errorno(ci, err) == [ci EXCEPT !.last_errorno_ = err]

Res(ci, hp, ret, calls) ==
  [self |-> ci, heap |-> hp, ret |-> ret, calls |-> calls, ub |-> FALSE]

\* faulty variants of the guard below, for comparison: one that never lets a
\* call through, one that lets every call through
not_inited_always(ci) == TRUE
not_inited_never(ci) == FALSE

\* NULL == interface_ || interface_->method == EN_CIMT_INVALID
not_inited(ci) == ci.interface_ = NULLPTR \/ Method(ci.interface_) = EN_CIMT_INVALID

\* a mode test that ignores the mode (a faulty variant, for comparison)
mode_has_always(mode, bit) == TRUE

\* mode & mode_t::EN_CMODE_ENCRYPT, mode & mode_t::EN_CMODE_DECRYPT
mode_has(mode, bit) == bit \in mode

IsSodium(m) == m >= EN_CIMT_LIBSODIUM_CHACHA20 /\ m <= EN_CIMT_LIBSODIUM_XCHACHA20_POLY1305_IETF

\* EVP_CIPHER_CTX_new + EVP_CipherInit_ex, or malloc + mbedtls_cipher_setup;
\* outcome is what the back-end does: "ok", "nomem" or "initfail"
create_context(ci, hp, b, outcome) ==
  LET free == { h \in Handles : ~hp[h].live } IN
    IF outcome = "nomem" \/ free = {}
      THEN [ptr |-> NULLPTR, heap |-> hp, ret |-> "MALLOC",
            self |-> setup_errorno(ci, IF b.generic = "openssl" THEN ERR_peek_error ELSE -1),
            calls |-> <<"ctx_new">>]
    ELSE LET h == SetMin(free)
             hp2 == [hp EXCEPT ![h] = [live |-> TRUE, key |-> <<>>]] IN
      IF outcome = "initfail"
        THEN [ptr |-> h, heap |-> hp2, ret |-> "CIPHER_OPERATION",
              self |-> setup_errorno(ci, IF b.generic = "openssl" THEN ERR_peek_error ELSE MBEDTLS_ERR),
              calls |-> <<"ctx_new", "ctx_init">>]
        ELSE [ptr |-> h, heap |-> hp2, ret |-> "OK", self |-> ci,
              calls |-> <<"ctx_new", "ctx_init">>]

\* a release that releases nothing (a faulty variant, for comparison)
free_context_leak(hp, p) == hp

\* EVP_CIPHER_CTX_free / mbedtls_cipher_free + free
free_context(hp, p) == IF p \in Handles THEN [hp EXCEPT ![p] = FreeCtx] ELSE hp

\* if (p) { free p }
free_if(cond, hp, p) == IF cond THEN free_context(hp, p) ELSE hp

\* a direction init_with_cipher creates no context for: the pointer is NULL
no_context(ci, hp) == [ptr |-> NULLPTR, heap |-> hp, ret |-> "OK", self |-> ci, calls |-> <<>>]

\* if (error_code_t::OK != ret) { ... }: the contexts of the requested
\* directions are released when their pointers are not NULL.  A decrypt
\* pointer that was never assigned reads as NULL or not (nd.uninit_null), and
\* releasing it is undefined (ub).
init_release(c2, hp, ret, calls, mode, nd) ==
  LET freeE == ret # "OK" /\ mode_has(mode, "ENCRYPT") /\ c2.enc # NULLPTR
      freeD == /\ ret # "OK" /\ mode_has(mode, "DECRYPT")
               /\ IF c2.dec = UNINIT THEN ~nd.uninit_null ELSE c2.dec # NULLPTR
  IN [self |-> [c2 EXCEPT !.enc = IF freeE THEN NULLPTR ELSE @,
                          !.dec = IF freeD THEN NULLPTR ELSE @],
      heap |-> free_if(freeD, free_if(freeE, hp, c2.enc), c2.dec),
      ret |-> ret,
      calls |-> calls \o (IF freeE THEN <<"ctx_free">> ELSE <<>>)
                      \o (IF freeD THEN <<"ctx_free">> ELSE <<>>),
      ub |-> freeD /\ c2.dec = UNINIT]

\* the end of the do { ... } while (false) block: d is the outcome of the
\* decrypt half, calls what the encrypt half called
init_decrypt_done(d, calls, mode, nd) ==
  init_release([d.self EXCEPT !.dec = d.ptr], d.heap, d.ret, calls \o d.calls, mode, nd)

\* the decrypt half of the block, c1 being the object after the encrypt half:
\* skipped (break) when the encrypt half failed
init_decrypt(c1, hp, ret, calls, b, mode, nd) ==
  init_decrypt_done(IF ret # "OK"
                      THEN [ptr |-> c1.dec, heap |-> hp, ret |-> ret, self |-> c1, calls |-> <<>>]
                    ELSE IF mode_has(mode, "DECRYPT")
                      THEN create_context(c1, hp, b, nd.dec)
                      ELSE no_context(c1, hp),
                    calls, mode, nd)

\* e is the outcome of the encrypt half
init_encrypt_done(e, b, mode, nd) ==
  init_decrypt([e.self EXCEPT !.enc = e.ptr], e.heap, e.ret, e.calls, b, mode, nd)

\* a context set-up that does not test the handle (a faulty variant, for
\* comparison)
init_contexts_unchecked(c0, hp, b, mode, nd) ==
  init_encrypt_done(IF mode_has(mode, "ENCRYPT")
                      THEN create_context(c0, hp, b, nd.enc)
                      ELSE no_context(c0, hp),
                    b, mode, nd)

\* cipher::init_with_cipher once cipher_kt_ is assigned
init_contexts(c0, hp, b, mode, nd) ==
  IF c0.cipher_kt_ = 0 THEN Res(setup_errorno(c0, -1), hp, "CIPHER_NOT_SUPPORT", <<>>)
  ELSE init_encrypt_done(IF mode_has(mode, "ENCRYPT")
                           THEN create_context(c0, hp, b, nd.enc)
                           ELSE no_context(c0, hp),
                         b, mode, nd)

\* cipher::init_with_cipher; nd holds the back-end outcomes of the two
\* context creations and whether an uninitialized pointer happens to be NULL
init_with_cipher(ci, hp, b, reg, interface, mode, nd) ==
  IF interface = 0 THEN Res(setup_errorno(ci, -1), hp, "INVALID_PARAM", <<>>)
  ELSE IF Method(interface) # EN_CIMT_CIPHER
    THEN Res(setup_errorno(ci, -1), hp, "INVALID_PARAM", <<>>)
  ELSE init_contexts([ci EXCEPT !.cipher_kt_ = cipher_by_name[<<b, reg, interface>>]],
                     hp, b, mode, nd)

\* the end of cipher::init: interface_ is assigned when r reports success
init_done(r, interface) ==
  IF r.ret = "OK" THEN [r EXCEPT !.self.interface_ = interface] ELSE r

\* the switch of cipher::init over the method of the descriptor found
init_method(ci, hp, b, reg, interface, m, mode, nd) ==
  IF interface = 0
    THEN Res(setup_errorno(ci, -1), hp, "CIPHER_NOT_SUPPORT", <<>>)
    ELSE init_done(CASE m = EN_CIMT_XXTEA ->
                          Res([ci EXCEPT !.key = [k \in 1..LIBSODIUM_KEY_BYTES |->
                                                    IF k <= XXTEA_KEY_BYTES THEN 0 ELSE ci.key[k]]],
                              hp, "OK", <<>>)
                     [] m = EN_CIMT_CIPHER -> init_with_cipher(ci, hp, b, reg, interface, mode, nd)
                     [] IsSodium(m) ->
                          Res([ci EXCEPT !.key = Zeros(LIBSODIUM_KEY_BYTES)], hp, "OK", <<>>)
                     [] OTHER -> Res(setup_errorno(ci, -1), hp, "CIPHER_NOT_SUPPORT", <<>>),
                   interface)

\* cipher::init once the name has been looked up
init_found(ci, hp, b, reg, interface, mode, nd) ==
  init_method(ci, hp, b, reg, interface, Method(interface), mode, nd)

\* cipher::init
init(ci, hp, b, reg, name, mode, nd) ==
  IF ~not_inited(ci)
    THEN Res(setup_errorno(ci, -1), hp, "ALREADY_INITED", <<>>)
  ELSE IF name = NULLSTR
    THEN Res(setup_errorno(ci, -1), hp, "INVALID_PARAM", <<>>)
  ELSE init_found(ci, hp, b, reg, interface_by_name[<<b, name>>], mode, nd)

\* cipher::close_with_cipher
close_with_cipher(ci, hp) ==
  IF ci.interface_ = NULLPTR THEN Res(setup_errorno(ci, 0), hp, "NOT_INITED", <<>>)
  ELSE IF Method(ci.interface_) # EN_CIMT_CIPHER
    THEN Res(setup_errorno(ci, 0), hp, "INVALID_PARAM", <<>>)
  ELSE Res(setup_errorno([ci EXCEPT !.enc = NULLPTR, !.dec = NULLPTR], 0),
           free_if(ci.dec # NULLPTR, free_if(ci.enc # NULLPTR, hp, ci.enc), ci.dec),
           "OK",
           (IF ci.enc # NULLPTR THEN <<"ctx_free">> ELSE <<>>)
             \o (IF ci.dec # NULLPTR THEN <<"ctx_free">> ELSE <<>>))

\* a close that keeps the descriptor (a faulty variant, for comparison)
close_keeps_interface(ci, hp) == Res(setup_errorno(ci, 0), hp, "OK", <<>>)

\* the switch of cipher::close over the method m of the descriptor held
close_method(ci, hp, m) ==
  CASE m = EN_CIMT_XXTEA -> Res(setup_errorno(ci, 0), hp, "OK", <<>>)
    [] m = EN_CIMT_CIPHER -> close_with_cipher(ci, hp)
    [] IsSodium(m) -> Res(setup_errorno(ci, 0), hp, "OK", <<>>)
    [] OTHER -> Res(setup_errorno(ci, 0), hp, "CIPHER_NOT_SUPPORT", <<>>)

\* interface_ = NULL at the end of cipher::close
close_done(r) == [r EXCEPT !.self.interface_ = NULLPTR]

\* cipher::close
close(ci, hp) ==
  IF not_inited(ci)
    THEN Res(setup_errorno(ci, 0), hp, "NOT_INITED", <<>>)
    ELSE close_done(close_method(ci, hp, Method(ci.interface_)))


(***************************************************************************)
(* Sizes.                                                                  *)
(***************************************************************************)
\* sizeof(libsodium_counter_t)
LIBSODIUM_COUNTER_SIZE == 8
\* MBEDTLS_MAX_IV_LENGTH
MBEDTLS_MAX_IV_LENGTH == 16

\* crypto_stream_*_NONCEBYTES, crypto_aead_*_NPUBBYTES
sodium_nonce_bytes(m) ==
  CASE m = EN_CIMT_LIBSODIUM_CHACHA20 -> 8
    [] m = EN_CIMT_LIBSODIUM_CHACHA20_IETF -> 12
    [] m = EN_CIMT_LIBSODIUM_XCHACHA20 -> 24
    [] m = EN_CIMT_LIBSODIUM_SALSA20 -> 8
    [] m = EN_CIMT_LIBSODIUM_XSALSA20 -> 24
    [] m = EN_CIMT_LIBSODIUM_CHACHA20_POLY1305 -> 8
    [] m = EN_CIMT_LIBSODIUM_CHACHA20_POLY1305_IETF -> 12
    [] m = EN_CIMT_LIBSODIUM_XCHACHA20_POLY1305_IETF -> 24
    [] OTHER -> 0

\* a faulty variant: a shorter required tag
sodium_abytes_short(m) == 8

\* crypto_aead_*_ABYTES
sodium_abytes(m) == 16

IsSodiumStream(m) == m >= EN_CIMT_LIBSODIUM_CHACHA20 /\ m <= EN_CIMT_LIBSODIUM_XSALSA20
IsSodiumAead(m) ==
  m >= EN_CIMT_LIBSODIUM_CHACHA20_POLY1305 /\ m <= EN_CIMT_LIBSODIUM_XCHACHA20_POLY1305_IETF

\* the cipher_kt_t a live context was set up with
ContextKt(ci) == supported_ciphers[ci.cipher_kt_].kt

\* an is_aead that never sees the flag (a faulty variant, for comparison)
is_aead_never(ci) == FALSE

\* cipher::is_aead
is_aead(ci) == IF ci.interface_ = NULLPTR THEN FALSE ELSE "AEAD" \in Flags(ci.interface_)

\* cipher::get_iv_size
get_iv_size(ci, b) ==
  IF ci.interface_ = NULLPTR THEN 0
  ELSE LET m == Method(ci.interface_) IN
    CASE m = EN_CIMT_INVALID \/ m = EN_CIMT_XXTEA -> 0
      [] m = EN_CIMT_CIPHER ->
           IF ci.enc # NULLPTR THEN ContextKt(ci).iv_length
           ELSE IF ci.dec # NULLPTR THEN ContextKt(ci).iv_length
           ELSE 0
      [] b.libsodium /\ IsSodiumStream(m) -> LIBSODIUM_COUNTER_SIZE + sodium_nonce_bytes(m)
      [] b.libsodium /\ IsSodiumAead(m) -> sodium_nonce_bytes(m)
      [] OTHER -> 0

\* cipher::get_key_bits
get_key_bits(ci, b) ==
  IF ci.interface_ = NULLPTR THEN 0
  ELSE LET m == Method(ci.interface_) IN
    CASE m = EN_CIMT_INVALID -> 0
      [] m = EN_CIMT_XXTEA -> XXTEA_KEY_BYTES * 8
      [] m = EN_CIMT_CIPHER ->
           IF ci.enc # NULLPTR THEN ContextKt(ci).key_bits
           ELSE IF ci.dec # NULLPTR THEN ContextKt(ci).key_bits
           ELSE 0
      [] b.libsodium /\ IsSodium(m) -> LIBSODIUM_KEY_BYTES * 8
      [] OTHER -> 0

\* cipher::get_block_size
get_block_size(ci) ==
  IF ci.interface_ = NULLPTR THEN 0
  ELSE LET m == Method(ci.interface_) IN
    CASE m = EN_CIMT_INVALID -> 0
      [] m = EN_CIMT_XXTEA -> 4
      [] m = EN_CIMT_CIPHER ->
           IF ci.enc # NULLPTR THEN ContextKt(ci).block_size
           ELSE IF ci.dec # NULLPTR THEN ContextKt(ci).block_size
           ELSE 0
      [] IsSodium(m) -> 1
      [] OTHER -> 0

(***************************************************************************)
(* Keys and IVs.                                                           *)
(***************************************************************************)
\* faulty variant: copies the whole of dst, whatever n is
memcpy_whole(dst, src, n) ==
  [k \in 1..Len(dst) |-> IF k <= Len(src) THEN src[k] ELSE UNINIT]

\* memcpy(dst, src, n): the first n bytes of dst replaced (a read past the
\* end of src yields bytes the caller never supplied)
memcpy(dst, src, n) ==
  [k \in 1..Len(dst) |->
     IF k <= n THEN (IF k <= Len(src) THEN src[k] ELSE UNINIT) ELSE dst[k]]

Prefix(s, n) == [k \in 1..(IF n < Len(s) THEN n ELSE Len(s)) |-> s[k]]

\* binding a key to a generic context: EVP_CipherInit_ex(ctx, NULL, NULL, key,
\* NULL, -1) reads key_length bytes; mbedtls_cipher_setkey rejects a length
\* other than the cipher's
bind_key(hp, p, kt, key) ==
  IF p \in Handles THEN [hp EXCEPT ![p].key = Prefix(key, kt.key_bits \div 8)] ELSE hp

\* cipher::set_key
set_key(ci, hp, b, key, key_bitlen) ==
  IF ci.interface_ = NULLPTR THEN Res(setup_errorno(ci, 0), hp, "NOT_INITED", <<>>)
  ELSE LET m == Method(ci.interface_) IN
    CASE m = EN_CIMT_INVALID -> Res(setup_errorno(ci, -1), hp, "NOT_INITED", <<>>)
      [] m = EN_CIMT_XXTEA ->
           LET secret == IF key_bitlen >= XXTEA_KEY_BYTES * 8
                           THEN memcpy(Zeros(XXTEA_KEY_BYTES), key, XXTEA_KEY_BYTES)
                           ELSE memcpy(Zeros(XXTEA_KEY_BYTES), key, key_bitlen \div 8)
           IN Res(setup_errorno([ci EXCEPT !.key = memcpy(ci.key, secret, XXTEA_KEY_BYTES)], 0),
                  hp, "OK", <<"xxtea_setup">>)
      [] m = EN_CIMT_CIPHER ->
           IF b.generic = "openssl"
             THEN IF get_key_bits(ci, b) > key_bitlen
                    THEN Res(setup_errorno(ci, -1), hp, "INVALID_PARAM", <<>>)
                    ELSE Res(setup_errorno(ci, 0),
                             bind_key(bind_key(hp, ci.enc, ContextKt(ci), key), ci.dec, ContextKt(ci), key),
                             "OK",
                             (IF ci.enc # NULLPTR THEN <<"set_key">> ELSE <<>>)
                               \o (IF ci.dec # NULLPTR THEN <<"set_key">> ELSE <<>>))
             ELSE LET calls == (IF ci.enc # NULLPTR THEN <<"set_key">> ELSE <<>>)
                                 \o (IF ci.dec # NULLPTR THEN <<"set_key">> ELSE <<>>)
                      accepted == key_bitlen = ContextKt(ci).key_bits
                  IN IF calls # <<>> /\ ~accepted
                       THEN Res(setup_errorno(ci, MBEDTLS_ERR), hp, "CIPHER_OPERATION", calls)
                       ELSE Res(setup_errorno(ci, 0),
                                bind_key(bind_key(hp, ci.enc, ContextKt(ci), key), ci.dec, ContextKt(ci), key),
                                "OK", calls)
      [] IsSodium(m) ->
           Res(setup_errorno([ci EXCEPT !.key =
                   IF key_bitlen >= LIBSODIUM_KEY_BYTES * 8
                     THEN memcpy(ci.key, key, LIBSODIUM_KEY_BYTES)
                     ELSE memcpy(ci.key, key, key_bitlen \div 8)], 0),
               hp, "OK", <<>>)
      [] OTHER -> Res(setup_errorno(ci, -1), hp, "NOT_INITED", <<>>)

\* cipher::set_iv
set_iv(ci, hp, b, iv) ==
  IF not_inited(ci)
    THEN Res(setup_errorno(ci, 0), hp, "NOT_INITED", <<>>)
  ELSE LET m == Method(ci.interface_) IN
    CASE m = EN_CIMT_XXTEA -> Res(ci, hp, "OK", <<>>)
      [] m = EN_CIMT_CIPHER ->
           IF b.generic = "mbedtls" /\ Len(iv) > MBEDTLS_MAX_IV_LENGTH
             THEN Res(setup_errorno(ci, -1), hp, "INVALID_PARAM", <<>>)
           ELSE IF "VARIABLE_IV_LEN" \notin Flags(ci.interface_) /\ get_iv_size(ci, b) # Len(iv)
             THEN Res(setup_errorno(ci, -1), hp, "INVALID_PARAM", <<>>)
           ELSE Res(setup_errorno([ci EXCEPT !.iv_ = iv], 0), hp, "OK", <<>>)
      [] IsSodium(m) ->
           IF get_iv_size(ci, b) # Len(iv)
             THEN Res(setup_errorno(ci, -1), hp, "INVALID_PARAM", <<>>)
             ELSE Res(setup_errorno([ci EXCEPT !.iv_ = iv], 0), hp, "OK", <<>>)
      [] OTHER -> Res(ci, hp, "OK", <<>>)

\* cipher::clear_iv
clear_iv(ci) == [ci EXCEPT !.iv_ = <<>>]

(***************************************************************************)
(* The primitives behind the facade.  The back-ends' mathematics is not    *)
(* part of this repository: each primitive is an abstract keyed byte       *)
(* transform that keeps what the facade depends on (stream ciphers are     *)
(* XOR with a keystream fixed by key, nonce and counter; block modes are   *)
(* keyed bijections whose inverse is a different function and that need    *)
(* whole blocks once padding is off; an AEAD tag is a function of key, IV, *)
(* associated data and ciphertext).                                        *)
(***************************************************************************)
\* a NULL input pointer
NULLBUF == <<-1>>

RECURSIVE SeqSum(_)
SeqSum(s) == IF s = <<>> THEN 0 ELSE Head(s) + SeqSum(Tail(s))

RECURSIVE xor(_, _)
xor(a, b) ==
  IF a = 0 THEN b
  ELSE IF b = 0 THEN a
  ELSE 2 * xor(a \div 2, b \div 2) + ((a + b) % 2)

Byte(x) == ((x % 256) + 256) % 256

\* the byte of s at C index k (s[k] in C); a read past the end is a read
\* of memory the vector does not own
At(s, k) == IF k + 1 <= Len(s) THEN s[k + 1] ELSE UNINIT

\* Unsigned integers of 32 and 64 bits are kept as their base-256 digits,
\* least significant first (4 or 8 of them); a digit read from memory the
\* vector does not own stays UNINIT through every operation.
RECURSIVE bit_or(_, _)
bit_or(a, b) ==
  IF a = 0 THEN b
  ELSE IF b = 0 THEN a
  ELSE 2 * bit_or(a \div 2, b \div 2) + (IF a % 2 = 1 \/ b % 2 = 1 THEN 1 ELSE 0)
\* x | y
word_or(x, y) ==
  [i \in 1..Len(x) |-> IF x[i] = UNINIT \/ y[i] = UNINIT THEN UNINIT ELSE bit_or(x[i], y[i])]
\* x << (8 * n), in the width of x: the digits pushed past the top are lost
word_shl(x, n) == [i \in 1..Len(x) |-> IF i > n THEN x[i - n] ELSE 0]
\* (uint32_t)c of an unsigned char
to_uint32(c) == <<c, 0, 0, 0>>
\* a conversion that copies the top bit into the new digits (a faulty
\* variant of the one below, for comparison)
to_counter_signed(w) ==
  w \o (IF w[4] >= 128 THEN <<255, 255, 255, 255>> ELSE <<0, 0, 0, 0>>)
\* (libsodium_counter_t)w of a uint32_t
to_counter(w) == w \o <<0, 0, 0, 0>>

\* libsodium_get_block(p + off), stored into a uint32_t:
\* p[0] | p[1] << 8 | p[2] << 16 | p[3] << 24, each byte widened first
libsodium_get_block(p, off) ==
  word_or(word_or(to_uint32(At(p, off)), word_shl(to_uint32(At(p, off + 1)), 1)),
          word_or(word_shl(to_uint32(At(p, off + 2)), 2), word_shl(to_uint32(At(p, off + 3)), 3)))

\* libsodium_get_counter: (((libsodium_counter_t)high) << 32) | low
libsodium_get_counter(iv) ==
  word_or(word_shl(to_counter(libsodium_get_block(iv, 4)), 4),
          to_counter(libsodium_get_block(iv, 0)))

\* the first keystream byte for (key, nonce, block counter)
Keystream(key, nonce, counter) == Byte(SeqSum(key) + 3 * SeqSum(nonce) + 5 * SeqSum(counter))

\* crypto_stream_*_xor_ic
stream_xor(data, k0) == [i \in 1..Len(data) |-> xor(data[i], Byte(k0 + i))]
\* a block mode's encryption and decryption over whole blocks
block_encrypt(data, k0) == [i \in 1..Len(data) |-> Byte(data[i] + k0 + i)]
block_decrypt(data, k0) == [i \in 1..Len(data) |-> Byte(data[i] - k0 - i)]

\* the 16-byte authentication tag
Mac(key, iv, ad, ct) ==
  [i \in 1..16 |-> Byte(SeqSum(key) + 3 * SeqSum(iv) + 7 * SeqSum(ad) + 11 * SeqSum(ct) + i)]

SubSeqFrom(s, k) == IF k > Len(s) THEN <<>> ELSE SubSeq(s, k, Len(s))

\* util::xxtea_encrypt / util::xxtea_decrypt over the whole buffer: the input
\* is extended with zero bytes to a whole number of 4-byte blocks, and the
\* length written is reported through olen
xxtea_round_up(ilen) == ((ilen + 3) \div 4) * 4
xxtea_pad(input) == [i \in 1..xxtea_round_up(Len(input)) |-> IF i <= Len(input) THEN input[i] ELSE 0]
xxtea_encrypt(key, input) == block_encrypt(xxtea_pad(input), Byte(SeqSum(Prefix(key, XXTEA_KEY_BYTES))))
xxtea_decrypt(key, input) == block_decrypt(xxtea_pad(input), Byte(SeqSum(Prefix(key, XXTEA_KEY_BYTES))))

CRes(ci, hp, ret, calls, out, olen, tag) ==
  [self |-> ci, heap |-> hp, ret |-> ret, calls |-> calls, ub |-> FALSE,
   out |-> out, olen |-> olen, tag |-> tag]

\* a context selection with the directions swapped (a faulty variant, for
\* comparison)
context_of_swapped(ci, dir) == IF dir = "enc" THEN ci.dec ELSE ci.enc

\* cipher_context_.enc in encrypt / encrypt_aead, cipher_context_.dec in
\* decrypt / decrypt_aead
context_of(ci, dir) == IF dir = "enc" THEN ci.enc ELSE ci.dec

\* a faulty variant of the check below: the block size left out
bad_params_no_block(ci, input, ilen, olen) ==
  input = NULLBUF \/ ilen <= 0 \/ olen <= 0 \/ olen < ilen

\* the check every crypt entry point makes on its buffers (output and olen
\* themselves are never NULL in this model)
bad_params(ci, input, ilen, olen) ==
  input = NULLBUF \/ ilen <= 0 \/ olen <= 0 \/ olen < ilen + get_block_size(ci)

\* a faulty variant of the step below: the IV is padded with ones
pad_iv_ones(ci, b) ==
  IF /\ Method(ci.interface_) >= EN_CIMT_CIPHER
     /\ "VARIABLE_IV_LEN" \notin Flags(ci.interface_)
     /\ Len(ci.iv_) < get_iv_size(ci, b)
    THEN [ci EXCEPT !.iv_ = [k \in 1..get_iv_size(ci, b) |-> IF k <= Len(ci.iv_) THEN ci.iv_[k] ELSE 1]]
    ELSE ci

\* a faulty variant of the step below: the IV is left as it is
pad_iv_never(ci, b) == ci

\* iv_.resize(get_iv_size(), 0) for a fixed-IV descriptor with a short IV
pad_iv(ci, b) ==
  IF /\ Method(ci.interface_) >= EN_CIMT_CIPHER
     /\ "VARIABLE_IV_LEN" \notin Flags(ci.interface_)
     /\ Len(ci.iv_) < get_iv_size(ci, b)
     /\ get_iv_size(ci, b) # 0
    THEN [ci EXCEPT !.iv_ = [k \in 1..get_iv_size(ci, b) |-> IF k <= Len(ci.iv_) THEN ci.iv_[k] ELSE 0]]
    ELSE ci

\* the generic back-end's one-shot transform of a non-AEAD cipher:
\* [ok, written, outlen]; update runs over the whole blocks, finalize rejects
\* a partial block when padding is off
generic_transform(kt, dir, key, iv, input) ==
  LET k0 == Keystream(key, Prefix(iv, kt.iv_length), <<>>)
      whole == Len(input) - (Len(input) % kt.block_size)
  IN IF key = <<>> THEN [ok |-> FALSE, written |-> <<>>]
     ELSE IF kt.kind = "block"
       THEN [ok |-> whole = Len(input),
             written |-> IF dir = "enc" THEN block_encrypt(Prefix(input, whole), k0)
                         ELSE block_decrypt(Prefix(input, whole), k0)]
       ELSE [ok |-> TRUE, written |-> stream_xor(input, k0)]

\* case EN_CIMT_CIPHER of encrypt / decrypt, EVP-style back-end
evp_crypt(ci, hp, dir, input, ilen, olen) ==
  LET ctx == context_of(ci, dir)
      nopad == IF dir = "enc" THEN "ENCRYPT_NO_PADDING" \in Flags(ci.interface_)
               ELSE "DECRYPT_NO_PADDING" \in Flags(ci.interface_)
      pre == (IF ci.iv_ # <<>> THEN <<"set_iv">> ELSE <<>>)
               \o (IF nopad THEN <<"set_padding">> ELSE <<>>)
      t == generic_transform(ContextKt(ci), dir, hp[ctx].key, ci.iv_, input)
  IN IF hp[ctx].key = <<>>
       THEN CRes(setup_errorno(ci, ERR_peek_error), hp, "CIPHER_OPERATION",
                 pre \o <<"update">>, <<>>, olen, <<>>)
     ELSE IF "NO_FINISH" \in Flags(ci.interface_)
       THEN CRes(ci, hp, "OK", pre \o <<"update">>, t.written, Len(t.written), <<>>)
     ELSE IF ~t.ok
       THEN CRes(setup_errorno(ci, ERR_peek_error), hp, "CIPHER_OPERATION",
                 pre \o <<"update", "final">>, t.written, olen, <<>>)
     ELSE CRes(ci, hp, "OK", pre \o <<"update", "final">>, t.written, Len(t.written), <<>>)

\* case EN_CIMT_CIPHER of encrypt / decrypt, mbedtls-style back-end
mbedtls_crypt(ci, hp, dir, input, ilen, olen) ==
  LET ctx == context_of(ci, dir)
      kt == ContextKt(ci)
      nopad == IF dir = "enc" THEN "ENCRYPT_NO_PADDING" \in Flags(ci.interface_)
               ELSE "DECRYPT_NO_PADDING" \in Flags(ci.interface_)
      pre == IF nopad /\ kt.kind = "block" /\ kt.iv_length > 0 THEN <<"set_padding">> ELSE <<>>
      t == generic_transform(kt, dir, hp[ctx].key, ci.iv_, input)
      iv_ok == Len(ci.iv_) <= MBEDTLS_MAX_IV_LENGTH /\ Len(ci.iv_) >= kt.iv_length
  IN IF ~iv_ok \/ ~t.ok
       THEN [CRes(ci, hp, "CIPHER_OPERATION", pre \o <<"crypt">>,
                  IF iv_ok THEN t.written ELSE <<>>, olen, <<>>)
               EXCEPT !.self.last_errorno_ = MBEDTLS_ERR]
       ELSE [CRes(ci, hp, "OK", pre \o <<"crypt">>, t.written, Len(t.written), <<>>)
               EXCEPT !.self.last_errorno_ = 0]

\* the libsodium stream primitives: crypto_stream_<name>_xor_ic, and the
\* nonce bytes each reads (crypto_stream_<name>_NONCEBYTES)
StreamPrimitives ==
  {"crypto_stream_chacha20_xor_ic", "crypto_stream_chacha20_ietf_xor_ic",
   "crypto_stream_xchacha20_xor_ic", "crypto_stream_salsa20_xor_ic",
   "crypto_stream_xsalsa20_xor_ic"}
stream_nonce_bytes(prim) ==
  CASE prim = "crypto_stream_chacha20_xor_ic" -> 8
    [] prim = "crypto_stream_chacha20_ietf_xor_ic" -> 12
    [] prim = "crypto_stream_xchacha20_xor_ic" -> 24
    [] prim = "crypto_stream_salsa20_xor_ic" -> 8
    [] prim = "crypto_stream_xsalsa20_xor_ic" -> 24

\* a Sodium stream case of encrypt / decrypt: the XOR primitive prim, the
\* same in both directions, over the nonce at &iv_[LIBSODIUM_COUNTER_SIZE]
\* and the counter at &iv_[0]; olen is not written
sodium_stream_crypt(ci, hp, prim, input, ilen, olen) ==
  LET counter == libsodium_get_counter(ci.iv_)
      nonce == [k \in 1..stream_nonce_bytes(prim) |-> At(ci.iv_, LIBSODIUM_COUNTER_SIZE + k - 1)]
      k0 == Keystream(ci.key, nonce, counter)
  IN [CRes(ci, hp, "OK", <<prim>>, stream_xor(input, k0), olen, <<>>)
        EXCEPT !.self.last_errorno_ = 0]

\* cipher::encrypt (dir = "enc") and cipher::decrypt (dir = "dec")
crypt(ci, hp, b, dir, input, ilen, olen) ==
  IF not_inited(ci)
    THEN CRes(setup_errorno(ci, 0), hp, "NOT_INITED", <<>>, <<>>, olen, <<>>)
  ELSE IF is_aead(ci)
    THEN CRes(ci, hp, "MUST_CALL_AEAD_API", <<>>, <<>>, olen, <<>>)
  ELSE IF bad_params(ci, input, ilen, olen)
    THEN CRes(setup_errorno(ci, -1), hp, "INVALID_PARAM", <<>>, <<>>, olen, <<>>)
  ELSE
    LET c1 == pad_iv(ci, b)
        m == Method(c1.interface_)
    IN CASE m = EN_CIMT_XXTEA ->
              LET o == IF dir = "enc" THEN xxtea_encrypt(c1.key, input) ELSE xxtea_decrypt(c1.key, input)
              IN CRes(setup_errorno(c1, 0), hp, "OK",
                      <<IF dir = "enc" THEN "xxtea_encrypt" ELSE "xxtea_decrypt">>, o, Len(o), <<>>)
         [] m = EN_CIMT_CIPHER ->
              IF context_of(c1, dir) = NULLPTR
                THEN CRes(setup_errorno(c1, 0), hp, "CIPHER_DISABLED", <<>>, <<>>, olen, <<>>)
              ELSE IF b.generic = "openssl"
                THEN evp_crypt(c1, hp, dir, input, ilen, olen)
                ELSE mbedtls_crypt(c1, hp, dir, input, ilen, olen)
         [] b.libsodium /\ m = EN_CIMT_LIBSODIUM_CHACHA20 ->
              sodium_stream_crypt(c1, hp, "crypto_stream_chacha20_xor_ic", input, ilen, olen)
         [] b.libsodium /\ m = EN_CIMT_LIBSODIUM_CHACHA20_IETF ->
              sodium_stream_crypt(c1, hp, "crypto_stream_chacha20_ietf_xor_ic", input, ilen, olen)
         \* the call of crypto_stream_xchacha20_xor_ic follows a return under
         \* no case label: EN_CIMT_LIBSODIUM_XCHACHA20 goes to default
         [] b.libsodium /\ m = EN_CIMT_LIBSODIUM_SALSA20 ->
              sodium_stream_crypt(c1, hp, "crypto_stream_salsa20_xor_ic", input, ilen, olen)
         [] b.libsodium /\ m = EN_CIMT_LIBSODIUM_XSALSA20 ->
              sodium_stream_crypt(c1, hp, "crypto_stream_xsalsa20_xor_ic", input, ilen, olen)
         [] OTHER -> CRes(setup_errorno(c1, -1), hp, "NOT_INITED", <<>>, <<>>, olen, <<>>)

encrypt(ci, hp, b, input, ilen, olen) == crypt(ci, hp, b, "enc", input, ilen, olen)
decrypt(ci, hp, b, input, ilen, olen) == crypt(ci, hp, b, "dec", input, ilen, olen)

\* whether the generic back-end accepts n as the IV length of an AEAD cipher
aead_ivlen_ok(kt, n) == n >= 1 /\ (kt.kind = "chachapoly" => n <= 12)
\* whether the generic back-end accepts n as a tag length
aead_taglen_ok(kt, n) == n >= 1 /\ n <= 16

\* case EN_CIMT_CIPHER of encrypt_aead, EVP-style back-end
evp_encrypt_aead(ci, hp, input, ilen, olen, ad, tag_len) ==
  LET kt == ContextKt(ci)
      key == hp[context_of(ci, "enc")].key
      var == "VARIABLE_IV_LEN" \in Flags(ci.interface_)
      iv == IF var THEN ci.iv_ ELSE Prefix(ci.iv_, kt.iv_length)
      c_ivlen == IF ci.iv_ # <<>> /\ var THEN <<"set_ivlen">> ELSE <<>>
      c_iv == IF ci.iv_ # <<>> THEN <<"set_iv">> ELSE <<>>
      c_len == IF "AEAD_SET_LENGTH_BEFORE" \in Flags(ci.interface_) THEN <<"update_len">> ELSE <<>>
      c_ad == IF ad # <<>> THEN <<"update_ad">> ELSE <<>>
      c_pad == IF "ENCRYPT_NO_PADDING" \in Flags(ci.interface_) THEN <<"set_padding">> ELSE <<>>
      ready == key # <<>> /\ ci.iv_ # <<>>
      ct == stream_xor(input, Keystream(key, iv, <<>>))
      err == setup_errorno(ci, ERR_peek_error)
  IN IF ci.iv_ # <<>> /\ var /\ ~aead_ivlen_ok(kt, Len(ci.iv_))
       THEN CRes(err, hp, "CIPHER_OPERATION_SET_IV", c_ivlen, <<>>, olen, <<>>)
     ELSE IF ~ready
       \* the first update call is refused
       THEN CRes(err, hp, "CIPHER_OPERATION",
                 c_ivlen \o c_iv \o (IF c_len # <<>> THEN c_len
                                     ELSE IF c_ad # <<>> THEN c_ad ELSE c_pad \o <<"update">>),
                 <<>>, olen, <<>>)
     ELSE LET done == c_ivlen \o c_iv \o c_len \o c_ad \o c_pad \o <<"update">>
                        \o (IF "NO_FINISH" \in Flags(ci.interface_) THEN <<>> ELSE <<"final">>)
          IN IF tag_len > 0 /\ ~aead_taglen_ok(kt, tag_len)
               \* *olen has been written before the tag is read
               THEN CRes(err, hp, "CIPHER_OPERATION", done \o <<"get_tag">>, ct, Len(ct), <<>>)
               ELSE CRes(ci, hp, "OK", done \o (IF tag_len > 0 THEN <<"get_tag">> ELSE <<>>),
                         ct, Len(ct), Prefix(Mac(key, iv, ad, ct), tag_len))

\* a faulty variant of the sequence below: the tag is set after the updates
decrypt_aead_updates_tag_last(c_ivlen, c_iv, c_tag, c_len, c_ad, c_pad) ==
  c_ivlen \o c_iv \o c_len \o c_ad \o c_pad \o <<"update">> \o c_tag

\* the back-end calls of the EVP-style decrypt_aead up to the data update,
\* in the order of the code
decrypt_aead_updates(c_ivlen, c_iv, c_tag, c_len, c_ad, c_pad) ==
  c_ivlen \o c_iv \o c_tag \o c_len \o c_ad \o c_pad \o <<"update">>

\* case EN_CIMT_CIPHER of decrypt_aead, EVP-style back-end
evp_decrypt_aead(ci, hp, input, ilen, olen, ad, tag) ==
  LET kt == ContextKt(ci)
      key == hp[context_of(ci, "dec")].key
      var == "VARIABLE_IV_LEN" \in Flags(ci.interface_)
      iv == IF var THEN ci.iv_ ELSE Prefix(ci.iv_, kt.iv_length)
      c_ivlen == IF ci.iv_ # <<>> /\ var THEN <<"set_ivlen">> ELSE <<>>
      c_iv == IF ci.iv_ # <<>> THEN <<"set_iv">> ELSE <<>>
      c_tag == IF Len(tag) > 0 THEN <<"set_tag">> ELSE <<>>
      c_len == IF "AEAD_SET_LENGTH_BEFORE" \in Flags(ci.interface_) THEN <<"update_len">> ELSE <<>>
      c_ad == IF ad # <<>> THEN <<"update_ad">> ELSE <<>>
      c_pad == IF "DECRYPT_NO_PADDING" \in Flags(ci.interface_) THEN <<"set_padding">> ELSE <<>>
      ready == key # <<>> /\ ci.iv_ # <<>>
      pt == stream_xor(input, Keystream(key, iv, <<>>))
      err == setup_errorno(ci, ERR_peek_error)
  IN IF ci.iv_ # <<>> /\ var /\ ~aead_ivlen_ok(kt, Len(ci.iv_))
       THEN CRes(err, hp, "CIPHER_OPERATION_SET_IV", c_ivlen, <<>>, olen, <<>>)
     ELSE IF Len(tag) > 0 /\ ~aead_taglen_ok(kt, Len(tag))
       THEN CRes(err, hp, "CIPHER_OPERATION", c_ivlen \o c_iv \o c_tag, <<>>, olen, <<>>)
     ELSE IF ~ready
       THEN CRes(err, hp, "CIPHER_OPERATION",
                 c_ivlen \o c_iv \o c_tag \o (IF c_len # <<>> THEN c_len
                                              ELSE IF c_ad # <<>> THEN c_ad ELSE c_pad \o <<"update">>),
                 <<>>, olen, <<>>)
     ELSE LET upd == decrypt_aead_updates(c_ivlen, c_iv, c_tag, c_len, c_ad, c_pad) IN
       IF "NO_FINISH" \in Flags(ci.interface_)
         THEN CRes(ci, hp, "OK", upd, pt, Len(pt), <<>>)
       ELSE IF tag = <<>> \/ tag # Prefix(Mac(key, iv, ad, input), Len(tag))
         \* finalize rejects the tag; update has written the output
         THEN CRes(err, hp, "CIPHER_OPERATION", upd \o <<"final">>, pt, olen, <<>>)
         ELSE CRes(ci, hp, "OK", upd \o <<"final">>, pt, Len(pt), <<>>)

\* case EN_CIMT_CIPHER of encrypt_aead / decrypt_aead, mbedtls-style back-end
\* (mbedtls_cipher_auth_encrypt / mbedtls_cipher_auth_decrypt)
mbedtls_crypt_aead(ci, hp, dir, input, ilen, olen, ad, tag, tag_len) ==
  LET kt == ContextKt(ci)
      key == hp[context_of(ci, dir)].key
      accepted == /\ key # <<>>
                  /\ aead_ivlen_ok(kt, Len(ci.iv_))
                  /\ Len(ci.iv_) <= MBEDTLS_MAX_IV_LENGTH
                  /\ aead_taglen_ok(kt, tag_len)
      o == stream_xor(input, Keystream(key, ci.iv_, <<>>))
      call == <<IF dir = "enc" THEN "auth_encrypt" ELSE "auth_decrypt">>
  IN IF ~accepted
       THEN [CRes(ci, hp, "CIPHER_OPERATION", call, <<>>, olen, <<>>)
               EXCEPT !.self.last_errorno_ = MBEDTLS_ERR]
     ELSE IF dir = "enc"
       THEN [CRes(ci, hp, "OK", call, o, Len(o), Prefix(Mac(key, ci.iv_, ad, o), tag_len))
               EXCEPT !.self.last_errorno_ = 0]
     ELSE IF tag # Prefix(Mac(key, ci.iv_, ad, input), tag_len)
       THEN [CRes(ci, hp, "CIPHER_OPERATION", call, <<>>, olen, <<>>)
               EXCEPT !.self.last_errorno_ = MBEDTLS_ERR]
       ELSE [CRes(ci, hp, "OK", call, o, Len(o), <<>>) EXCEPT !.self.last_errorno_ = 0]

\* the Sodium AEAD cases of encrypt_aead / decrypt_aead
\* (crypto_aead_*_encrypt_detached / _decrypt_detached); olen is not written
sodium_crypt_aead(ci, hp, dir, input, ilen, olen, ad, tag, tag_len) ==
  LET m == Method(ci.interface_)
      npub == [k \in 1..sodium_nonce_bytes(m) |-> At(ci.iv_, k - 1)]
      o == stream_xor(input, Keystream(ci.key, npub, <<>>))
  IN IF sodium_abytes(m) > tag_len
       THEN CRes(ci, hp, "LIBSODIUM_OPERATION_TAG_LEN", <<>>, <<>>, olen, <<>>)
     ELSE IF dir = "enc"
       THEN [CRes(ci, hp, "OK", <<"aead_encrypt_detached">>, o, olen, Mac(ci.key, npub, ad, o))
               EXCEPT !.self.last_errorno_ = 0]
     ELSE IF Prefix(tag, sodium_abytes(m)) # Mac(ci.key, npub, ad, input)
       THEN [CRes(ci, hp, "LIBSODIUM_OPERATION", <<"aead_decrypt_detached">>, <<>>, olen, <<>>)
               EXCEPT !.self.last_errorno_ = -1]
       ELSE [CRes(ci, hp, "OK", <<"aead_decrypt_detached">>, o, olen, <<>>)
               EXCEPT !.self.last_errorno_ = 0]

\* cipher::encrypt_aead
encrypt_aead(ci, hp, b, input, ilen, olen, ad, tag_len) ==
  IF not_inited(ci)
    THEN CRes(setup_errorno(ci, 0), hp, "NOT_INITED", <<>>, <<>>, olen, <<>>)
  ELSE IF ~is_aead(ci)
    THEN CRes(ci, hp, "MUST_NOT_CALL_AEAD_API", <<>>, <<>>, olen, <<>>)
  ELSE IF bad_params(ci, input, ilen, olen)
    THEN CRes(setup_errorno(ci, -1), hp, "INVALID_PARAM", <<>>, <<>>, olen, <<>>)
  ELSE
    LET c1 == pad_iv(ci, b)
        m == Method(c1.interface_)
    IN CASE m = EN_CIMT_CIPHER ->
              IF context_of(c1, "enc") = NULLPTR
                THEN CRes(setup_errorno(c1, 0), hp, "CIPHER_DISABLED", <<>>, <<>>, olen, <<>>)
              ELSE IF b.generic = "openssl"
                THEN evp_encrypt_aead(c1, hp, input, ilen, olen, ad, tag_len)
                ELSE mbedtls_crypt_aead(c1, hp, "enc", input, ilen, olen, ad, <<>>, tag_len)
         [] b.libsodium /\ IsSodiumAead(m) ->
              sodium_crypt_aead(c1, hp, "enc", input, ilen, olen, ad, <<>>, tag_len)
         [] OTHER -> CRes(setup_errorno(c1, -1), hp, "NOT_INITED", <<>>, <<>>, olen, <<>>)

\* cipher::decrypt_aead
decrypt_aead(ci, hp, b, input, ilen, olen, ad, tag) ==
  IF not_inited(ci)
    THEN CRes(setup_errorno(ci, 0), hp, "NOT_INITED", <<>>, <<>>, olen, <<>>)
  ELSE IF ~is_aead(ci)
    THEN CRes(ci, hp, "MUST_NOT_CALL_AEAD_API", <<>>, <<>>, olen, <<>>)
  ELSE IF bad_params(ci, input, ilen, olen)
    THEN CRes(setup_errorno(ci, -1), hp, "INVALID_PARAM", <<>>, <<>>, olen, <<>>)
  ELSE
    LET c1 == pad_iv(ci, b)
        m == Method(c1.interface_)
    IN CASE m = EN_CIMT_INVALID ->
              CRes(setup_errorno(c1, -1), hp, "NOT_INITED", <<>>, <<>>, olen, <<>>)
         [] m = EN_CIMT_XXTEA ->
              LET o == xxtea_decrypt(c1.key, input)
              IN CRes(setup_errorno(c1, 0), hp, "OK", <<"xxtea_decrypt">>, o, Len(o), <<>>)
         [] m = EN_CIMT_CIPHER ->
              IF context_of(c1, "dec") = NULLPTR
                THEN CRes(setup_errorno(c1, 0), hp, "CIPHER_DISABLED", <<>>, <<>>, olen, <<>>)
              ELSE IF b.generic = "openssl"
                THEN evp_decrypt_aead(c1, hp, input, ilen, olen, ad, tag)
                ELSE mbedtls_crypt_aead(c1, hp, "dec", input, ilen, olen, ad, tag, Len(tag))
         [] b.libsodium /\ IsSodiumAead(m) ->
              sodium_crypt_aead(c1, hp, "dec", input, ilen, olen, ad, tag, Len(tag))
         [] OTHER -> CRes(setup_errorno(c1, -1), hp, "NOT_INITED", <<>>, <<>>, olen, <<>>)

(***************************************************************************)
(* cipher::ciphertok.  A C string is the sequence of its characters; a     *)
(* pointer into it is a position, Len + 1 being the position of the        *)
(* terminator, and NULLPOS the NULL pointer.                                *)
(***************************************************************************)
NULLPOS == 0
NUL == "NUL"
\* *p
CharAt(s, p) == IF p >= 1 /\ p <= Len(s) THEN s[p] ELSE NUL

\* a faulty variant of the test below: the colon is left out
is_delimiter_no_colon(c) == c \in {" ", "\t", "\r", "\n", ";", ","}

\* *b == ' ' || *b == '\t' || *b == '\r' || *b == '\n' || *b == ';' ||
\* *b == ',' || *b == ':'
is_delimiter(c) == c \in {" ", "\t", "\r", "\n", ";", ",", ":"}

\* a faulty variant of the loop below: nothing is skipped
skip_none(s, b) == b

\* while (0 != *b && (*b is a delimiter)) ++b;
RECURSIVE skip_delimiters(_, _)
skip_delimiters(s, b) ==
  IF CharAt(s, b) # NUL /\ is_delimiter(CharAt(s, b)) THEN skip_delimiters(s, b + 1) ELSE b

\* for (e = b; 0 != *e; ++e) if (*e is a delimiter) break;
RECURSIVE scan_token(_, _)
scan_token(s, e) ==
  IF CharAt(s, e) = NUL THEN e
  ELSE IF is_delimiter(CharAt(s, e)) THEN e
  ELSE scan_token(s, e + 1)

\* the returned pair
TokRange(b, e) == [first |-> b, second |-> e]
token_between(b, e) == IF e <= b THEN TokRange(NULLPOS, NULLPOS) ELSE TokRange(b, e)

\* cipher::ciphertok(in), in pointing into s
ciphertok(s, in) ==
  IF in = NULLPOS THEN TokRange(NULLPOS, NULLPOS)
  ELSE token_between(skip_delimiters(s, in), scan_token(s, skip_delimiters(s, in)))

(***************************************************************************)
(* The state machine.                                                      *)
(***************************************************************************)
VARIABLES
  build,       \* the preprocessor configuration, fixed
  names,       \* the cipher names this program's caller passes to init, fixed
  registered,  \* whether the EVP catalogue is registered (process-wide)
  all_cipher_names,  \* the static vector of get_all_cipher_names (process-wide)
  alive,       \* whether the cipher object exists
  self,        \* the cipher object's members
  heap,        \* the generic back-end's contexts: live or free, and the key bound
  op,          \* the method called last
  arg,         \* its arguments
  ret,         \* the error_code_t it returned
  calls,       \* the back-end / XXTEA calls it made, in order
  out,         \* what it left in the caller's output, olen and tag
  ub,          \* whether it released a pointer that was never assigned
  tok,         \* a caller's iteration of ciphertok over a string
  threads      \* the threads inside get_all_cipher_names

vars == <<tok, threads, build, supported_ciphers, all_cipher_names, names, registered, alive, self, heap, op, arg, ret, calls, out, ub>>

\* the bytes callers pass: n bytes that depend on n and on what they are for
Pattern(p, n) == [k \in 1..n |-> Byte(64 * p + n + k)]

Modes == SUBSET {"ENCRYPT", "DECRYPT"}
Outcomes == {"ok", "nomem", "initfail"}
\* what the back-end and the platform do during one init: the outcome of each
\* context creation, whether a never-assigned pointer happens to read as NULL,
\* and whether releasing a never-assigned pointer aborts the process
InitOutcomes ==
  { [enc |-> "ok", dec |-> d, uninit_null |-> FALSE, abort |-> FALSE] : d \in Outcomes }
  \cup { [enc |-> e, dec |-> "ok", uninit_null |-> u[1], abort |-> u[2]] :
           e \in {"nomem", "initfail"},
           u \in {<<TRUE, FALSE>>, <<FALSE, FALSE>>, <<FALSE, TRUE>>} }
KeyLens == {8, 32}
IvLens == {12, 16, 32}
PlainLens == {0, 5, 16}
Keys == { Pattern(1, n) : n \in KeyLens }
Ivs == { Pattern(2, n) : n \in IvLens }
Plains == { Pattern(3, n) : n \in PlainLens }
Ads == { <<>>, <<222, 173, 190, 239>> }
TagLens == {8, 16}
\* a tag length no AEAD of the table produces
LongTag == 17

\* the programs explored: a build, and the cipher names its caller passes to
\* init.  Each name is paired with the builds in which it resolves differently.
BuildOf(generic, cc, cp, sodium) ==
  [generic |-> generic, chacha20_with_cipher |-> cc,
   chacha20_poly1305_with_cipher |-> cp, libsodium |-> sodium]
OPENSSL_FULL == BuildOf("openssl", TRUE, TRUE, TRUE)
OPENSSL_SODIUM == BuildOf("openssl", FALSE, FALSE, TRUE)
OPENSSL_PLAIN == BuildOf("openssl", FALSE, FALSE, FALSE)
MBEDTLS_SODIUM == BuildOf("mbedtls", FALSE, FALSE, TRUE)

N_XXTEA == {NULLSTR, <<>>, <<"n","o","-","s","u","c","h">>, <<"x","x","t","e","a">>, <<"X","x","T","e","A">>}
N_CBC == {<<"a","e","s","-","1","2","8","-","c","b","c">>}
N_GCM == {<<"a","e","s","-","2","5","6","-","g","c","m">>}
N_CHACHA20 == {<<"c","h","a","c","h","a","2","0">>}
N_XCHACHA20 == {<<"x","c","h","a","c","h","a","2","0">>}
N_CHACHA20_POLY1305 == {<<"c","h","a","c","h","a","2","0","-","p","o","l","y","1","3","0","5","-","i","e","t","f">>}

Programs ==
  { <<OPENSSL_PLAIN, N_XXTEA>>, <<MBEDTLS_SODIUM, N_XXTEA>>,
    <<OPENSSL_SODIUM, N_CBC>>, <<MBEDTLS_SODIUM, N_CBC>>,
    <<OPENSSL_SODIUM, N_GCM>>, <<MBEDTLS_SODIUM, N_GCM>>,
    <<OPENSSL_FULL, N_CHACHA20>>, <<OPENSSL_SODIUM, N_CHACHA20>>, <<OPENSSL_PLAIN, N_CHACHA20>>,
    <<OPENSSL_SODIUM, N_XCHACHA20>>,
    <<OPENSSL_FULL, N_CHACHA20_POLY1305>>, <<OPENSSL_SODIUM, N_CHACHA20_POLY1305>>,
    <<OPENSSL_SODIUM, {<<"x","x","t","e","a">>} \cup N_CHACHA20>>,
    <<OPENSSL_SODIUM, N_GCM \cup N_CBC>> }

ShortPlain == Pattern(3, 5)
LongPlain == Pattern(3, 16)

\* (input, slack) pairs for encrypt and decrypt
CryptArgs(inputs) == { <<i, 0>> : i \in inputs } \cup { <<LongPlain, -1>> }

AeadEncryptArgs ==
  { [input |-> ShortPlain, slack |-> 0, ad |-> ad, tag_len |-> t] : ad \in Ads, t \in TagLens }
  \cup { [input |-> ShortPlain, slack |-> -1, ad |-> <<>>, tag_len |-> 16],
          [input |-> ShortPlain, slack |-> 0, ad |-> <<>>, tag_len |-> LongTag],
          [input |-> <<>>, slack |-> 0, ad |-> <<>>, tag_len |-> 16] }

NoArg == [name |-> NULLSTR, input |-> <<>>, olen |-> 0, ad |-> <<>>, tag |-> <<>>, tag_len |-> 0]
NoOut == [data |-> <<>>, olen |-> 0, tag |-> <<>>]

\* no iteration of ciphertok under way
NoTok == [str |-> <<>>, in |-> NULLPOS, passed |-> NULLPOS, first |-> NULLPOS,
          second |-> NULLPOS, ranges |-> <<>>, called |-> FALSE, done |-> FALSE]
\* no thread inside get_all_cipher_names
Threads == {1, 2}
Outside == [pc |-> "outside", i |-> 0, seen |-> <<>>]

\* the state after construction, in one of the programs
InitIn(programs) ==
  /\ \E p \in programs : build = p[1] /\ names = p[2]
  /\ supported_ciphers = [i \in DOMAIN supported_ciphers_all |->
                           [method |-> supported_ciphers_all[i].method,
                            flags |-> supported_ciphers_all[i].flags,
                            kt |-> supported_ciphers_all[i].kt]]
  /\ registered = FALSE
  /\ all_cipher_names = <<>>
  /\ alive = TRUE
  /\ self = NewCipher
  /\ heap = [h \in Handles |-> FreeCtx]
  /\ op = "cipher"
  /\ arg = NoArg
  /\ ret = "OK"
  /\ calls = <<>>
  /\ out = NoOut
  /\ ub = "none"

Init ==
  /\ InitIn(Programs)
  /\ tok = NoTok
  /\ threads = [t \in Threads |-> Outside]

Usable == alive /\ ub # "aborted"

\* the state after a method returned r
Returned(name, a, r, o) ==
  /\ self' = r.self
  /\ heap' = r.heap
  /\ op' = name
  /\ arg' = a
  /\ ret' = r.ret
  /\ calls' = r.calls
  /\ out' = o
  /\ ub' = "none"
  /\ UNCHANGED <<tok, threads, build, supported_ciphers, all_cipher_names, names, registered, alive>>

OutOf(r) == [data |-> r.out, olen |-> r.olen, tag |-> r.tag]

\* cipher::cipher() on fresh storage
Construct ==
  /\ ~alive /\ ub # "aborted"
  /\ alive' = TRUE
  /\ self' = NewCipher
  /\ op' = "cipher" /\ arg' = NoArg /\ ret' = "OK" /\ calls' = <<>> /\ out' = NoOut
  /\ UNCHANGED <<tok, threads, build, supported_ciphers, all_cipher_names, names, registered, heap, ub>>

\* cipher::~cipher(): close(), then the object is gone
Destroy ==
  /\ Usable
  /\ \E r \in {close(self, heap)} :
       /\ alive' = FALSE
       /\ self' = r.self /\ heap' = r.heap
       /\ op' = "~cipher" /\ arg' = NoArg /\ ret' = r.ret /\ calls' = r.calls /\ out' = NoOut
  /\ UNCHANGED <<tok, threads, build, supported_ciphers, all_cipher_names, names, registered, ub>>

\* init(name, mode).  Releasing a pointer that was never assigned is
\* undefined: the call either aborts the process or returns.
CallInit(name, mode, nd) ==
  /\ Usable
  /\ \E r \in {init(self, heap, build, registered, name, mode, nd)} :
       IF r.ub /\ nd.abort
         THEN /\ ub' = "aborted"
              /\ UNCHANGED <<tok, threads, build, supported_ciphers, all_cipher_names, names, registered, alive, self, heap, op, arg, ret, calls, out>>
         ELSE /\ self' = r.self /\ heap' = r.heap
              /\ op' = "init" /\ arg' = [NoArg EXCEPT !.name = name] /\ ret' = r.ret /\ calls' = r.calls /\ out' = NoOut
              /\ ub' = IF r.ub THEN "continued" ELSE "none"
              /\ UNCHANGED <<tok, threads, build, supported_ciphers, all_cipher_names, names, registered, alive>>

CallClose ==
  /\ Usable
  /\ Returned("close", NoArg, close(self, heap), NoOut)

CallSetKey(key) ==
  /\ Usable
  /\ Returned("set_key", [NoArg EXCEPT !.input = key],
              set_key(self, heap, build, key, 8 * Len(key)), NoOut)

CallSetIv(iv) ==
  /\ Usable
  /\ Returned("set_iv", [NoArg EXCEPT !.input = iv], set_iv(self, heap, build, iv), NoOut)

CallClearIv ==
  /\ Usable
  /\ Returned("clear_iv", NoArg, Res(clear_iv(self), heap, "OK", <<>>), NoOut)

Capacity(input, slack) == Len(input) + get_block_size(self) + slack

\* what a caller can pass to decrypt: some bytes, or what encrypt just produced
CipherTexts ==
  {ShortPlain, LongPlain}
  \cup (IF op \in {"encrypt", "encrypt_aead"} /\ ret = "OK" THEN {out.data} ELSE {})

\* and to decrypt_aead: the output of the encrypt_aead before it, with its
\* tag or a damaged one, with its associated data or other; or some bytes
AeadDecryptArgs ==
  IF op = "encrypt_aead" /\ ret = "OK" /\ out.tag # <<>>
    THEN { [input |-> out.data, slack |-> 0, ad |-> ad, tag |-> t] :
             ad \in Ads, t \in {out.tag, [out.tag EXCEPT ![1] = xor(@, 1)]} }
         \cup { [input |-> out.data, slack |-> -1, ad |-> arg.ad, tag |-> out.tag] }
    ELSE { [input |-> ShortPlain, slack |-> 0, ad |-> <<>>, tag |-> t] :
             t \in {<<>>, Pattern(0, 16)} }

CallEncrypt(input, slack) ==
  /\ Usable
  /\ \E olen \in {Capacity(input, slack)} :
       \E r \in {encrypt(self, heap, build, input, Len(input), olen)} :
         Returned("encrypt", [NoArg EXCEPT !.input = input, !.olen = olen], r, OutOf(r))

CallDecrypt(input, slack) ==
  /\ Usable
  /\ \E olen \in {Capacity(input, slack)} :
       \E r \in {decrypt(self, heap, build, input, Len(input), olen)} :
         Returned("decrypt", [NoArg EXCEPT !.input = input, !.olen = olen], r, OutOf(r))

CallEncryptAead(input, slack, ad, tag_len) ==
  /\ Usable
  /\ \E olen \in {Capacity(input, slack)} :
       \E r \in {encrypt_aead(self, heap, build, input, Len(input), olen, ad, tag_len)} :
         Returned("encrypt_aead",
                  [NoArg EXCEPT !.input = input, !.olen = olen, !.ad = ad, !.tag_len = tag_len],
                  r, OutOf(r))

CallDecryptAead(input, slack, ad, tag) ==
  /\ Usable
  /\ \E olen \in {Capacity(input, slack)} :
       \E r \in {decrypt_aead(self, heap, build, input, Len(input), olen, ad, tag)} :
         Returned("decrypt_aead",
                  [NoArg EXCEPT !.input = input, !.olen = olen, !.ad = ad, !.tag = tag, !.tag_len = Len(tag)],
                  r, OutOf(r))

\* cipher::init_global_algorithm: OpenSSL_add_all_algorithms() with the
\* EVP-style back-end, nothing otherwise
InitGlobalAlgorithm ==
  /\ ub # "aborted"
  /\ registered' = IF build.generic = "openssl" THEN TRUE ELSE registered
  /\ UNCHANGED <<tok, threads, build, supported_ciphers, all_cipher_names, names, alive, self, heap, op, arg, ret, calls, out, ub>>

\* cipher::cleanup_global_algorithm: EVP_cleanup(), or nothing; the program
\* calls it when no back-end context is in use
CleanupGlobalAlgorithm ==
  /\ ub # "aborted"
  /\ \A h \in Handles : ~heap[h].live
  /\ registered' = IF build.generic = "openssl" THEN FALSE ELSE registered
  /\ UNCHANGED <<tok, threads, build, supported_ciphers, all_cipher_names, names, alive, self, heap, op, arg, ret, calls, out, ub>>

\* cipher::get_all_cipher_names(): a static function; what it returns is
\* the static vector
GetAllCipherNames ==
  /\ ub # "aborted"
  /\ all_cipher_names' = get_all_cipher_names(all_cipher_names, build, registered)
  /\ op' = "get_all_cipher_names" /\ arg' = NoArg /\ ret' = "OK" /\ calls' = <<>> /\ out' = NoOut
  /\ UNCHANGED <<tok, threads, build, supported_ciphers, names, registered, alive, self, heap, ub>>

Next ==
  \/ Construct
  \/ Destroy
  \/ \E name \in names, mode \in Modes, nd \in InitOutcomes : CallInit(name, mode, nd)
  \/ CallClose
  \/ \E key \in Keys : CallSetKey(key)
  \/ \E iv \in Ivs : CallSetIv(iv)
  \/ CallClearIv
  \/ \E a \in CryptArgs(Plains) : CallEncrypt(a[1], a[2])
  \/ \E a \in CryptArgs(CipherTexts) : CallDecrypt(a[1], a[2])
  \/ \E a \in AeadEncryptArgs : CallEncryptAead(a.input, a.slack, a.ad, a.tag_len)
  \/ \E a \in AeadDecryptArgs : CallDecryptAead(a.input, a.slack, a.ad, a.tag)
  \/ InitGlobalAlgorithm
  \/ CleanupGlobalAlgorithm

Spec == Init /\ [][Next]_vars

(***************************************************************************)
(* The registry's callers: programs that list the names, register and      *)
(* unregister the back-end catalogue, and initialize sessions by their own *)
(* names and by those of the names listed that callers use.                *)
(***************************************************************************)
ListedNames == { all_cipher_names[k] : k \in DOMAIN all_cipher_names }

\* an init during which the back-end refuses nothing
NoFailure == [enc |-> "ok", dec |-> "ok", uninit_null |-> FALSE, abort |-> FALSE]

RegistryNext ==
  \/ GetAllCipherNames
  \/ InitGlobalAlgorithm
  \/ CleanupGlobalAlgorithm
  \/ \E name \in names \cup (ListedNames \cap InitNames), mode \in Modes :
       CallInit(name, mode, NoFailure)
  \/ CallClose
  \/ Construct
  \/ Destroy

RegistrySpec == Init /\ [][RegistryNext]_vars

(***************************************************************************)
(* A caller of ciphertok: it passes a string, or NULL, and then, as long   *)
(* as a range comes back, the end of the range it got.                     *)
(***************************************************************************)
\* the longest string passed
MaxTokLen == 4
TokChars == {"a", "b", " ", "\t", "\r", "\n", ",", ";", ":"}
TokStrings == UNION { [1..n -> TokChars] : n \in 0..MaxTokLen }

TokInit ==
  /\ InitIn({<<OPENSSL_FULL, N_XXTEA>>})
  /\ threads = [t \in Threads |-> Outside]
  /\ \E s \in TokStrings, in \in {NULLPOS, 1} :
       /\ in = NULLPOS => s = <<>>
       /\ tok = [NoTok EXCEPT !.str = s, !.in = in]

\* one call: ciphertok(in); the next call starts at the end returned
CallCipherTok ==
  /\ ~tok.done
  /\ \E r \in {ciphertok(tok.str, tok.in)} :
       tok' = [str |-> tok.str,
               in |-> IF r.second # NULLPOS THEN r.second ELSE tok.in,
               passed |-> tok.in,
               first |-> r.first,
               second |-> r.second,
               ranges |-> IF r.first # NULLPOS THEN Append(tok.ranges, <<r.first, r.second>>)
                                               ELSE tok.ranges,
               called |-> TRUE,
               done |-> r.first = NULLPOS]
  /\ UNCHANGED <<threads, build, supported_ciphers, all_cipher_names, names, registered,
                 alive, self, heap, op, arg, ret, calls, out, ub>>

TokNext == CallCipherTok

\* the caller's loop runs until a call returns (NULL, NULL)
TokSpec == TokInit /\ [][TokNext]_vars /\ WF_vars(CallCipherTok)

(***************************************************************************)
(* Threads calling get_all_cipher_names at the same time.  The function    *)
(* holds no lock: the test of ret.empty(), each turn of the loop with its  *)
(* push_back, and the return are steps of their own.  The construction of  *)
(* the static vector is guarded by the language; its filling is not.  A    *)
(* push_back while another thread is inside the loop is a data race: the   *)
(* element is appended, or it lands in the slot the other thread's last    *)
(* push_back took, or the process aborts.                                  *)
(***************************************************************************)
RaceOutcomes == {"appended", "overwritten", "aborted"}

\* the call: static std::vector<std::string> ret is there
ThreadCall(t) ==
  /\ ub # "aborted"
  /\ threads[t].pc = "outside" /\ threads[t].seen = <<>>
  /\ threads' = [threads EXCEPT ![t] = [pc |-> "test", i |-> 0, seen |-> <<>>]]
  /\ UNCHANGED <<tok, build, supported_ciphers, all_cipher_names, names, registered,
                 alive, self, heap, op, arg, ret, calls, out, ub>>

\* if (ret.empty())
ThreadTest(t) ==
  /\ ub # "aborted"
  /\ threads[t].pc = "test"
  /\ threads' = [threads EXCEPT ![t].pc = IF all_cipher_names = <<>> THEN "loop" ELSE "return",
                                ![t].i = 1]
  /\ UNCHANGED <<tok, build, supported_ciphers, all_cipher_names, names, registered,
                 alive, self, heap, op, arg, ret, calls, out, ub>>

\* ret.push_back(name) under outcome how
push_back(v, name, how) ==
  IF how = "overwritten" /\ v # <<>> THEN [v EXCEPT ![Len(v)] = name] ELSE Append(v, name)

\* one turn of the loop over the table, to the next entry of the build
ThreadLoop(t, how) ==
  /\ ub # "aborted"
  /\ threads[t].pc = "loop"
  /\ how # "appended" => \E u \in Threads \ {t} : threads[u].pc = "loop"
  /\ IF threads[t].i > Len(supported_ciphers_all)
       THEN /\ how = "appended"
            /\ threads' = [threads EXCEPT ![t].pc = "return"]
            /\ UNCHANGED <<all_cipher_names, ub>>
       ELSE /\ threads' = [threads EXCEPT ![t].i = @ + 1]
            /\ IF pushes_name(build, registered, threads[t].i)
                 THEN /\ all_cipher_names' =
                           push_back(all_cipher_names, supported_ciphers_all[threads[t].i].name, how)
                      /\ ub' = IF how = "aborted" THEN "aborted" ELSE ub
                 ELSE /\ how = "appended"
                      /\ UNCHANGED <<all_cipher_names, ub>>
  /\ UNCHANGED <<tok, build, supported_ciphers, names, registered,
                 alive, self, heap, op, arg, ret, calls, out>>

\* return ret: the caller reads the vector
ThreadReturn(t) ==
  /\ ub # "aborted"
  /\ threads[t].pc = "return"
  /\ threads' = [threads EXCEPT ![t].pc = "outside", ![t].seen = all_cipher_names]
  /\ UNCHANGED <<tok, build, supported_ciphers, all_cipher_names, names, registered,
                 alive, self, heap, op, arg, ret, calls, out, ub>>

\* a program on the plain EVP-style build that starts its threads without
\* having registered the catalogue: xxtea is the one name that resolves
ThreadsInit ==
  /\ InitIn({<<OPENSSL_PLAIN, N_XXTEA>>})
  /\ tok = NoTok
  /\ threads = [t \in Threads |-> Outside]

ThreadsNext ==
  \/ \E t \in Threads : ThreadCall(t)
  \/ \E t \in Threads : ThreadTest(t)
  \/ \E t \in Threads, how \in RaceOutcomes : ThreadLoop(t, how)
  \/ \E t \in Threads : ThreadReturn(t)

ThreadsSpec == ThreadsInit /\ [][ThreadsNext]_vars

(***************************************************************************)
(* Properties.                                                             *)
(***************************************************************************)
HoldsDescriptor == self.interface_ # NULLPTR
Callable == alive /\ ub # "aborted"
ContextLive(hp, p) == p \in Handles /\ hp[p].live
NoContext(hp) == \A h \in Handles : ~hp[h].live
IsInitStep ==
  /\ op' = "init" \/ ub' = "aborted"
  /\ \E name \in names, mode \in Modes, nd \in InitOutcomes : CallInit(name, mode, nd)

\* every argument list a caller can pass to encrypt / decrypt, valid or not
AnyCryptArgs ==
  { <<i, Len(i) + get_block_size(self) + s>> : i \in Plains, s \in {-1, 0} }
  \cup { <<NULLBUF, 16>> }
\* those that pass the parameter check
ValidCryptArgs == { <<i, Len(i) + get_block_size(self)>> : i \in Plains \ {<<>>} }
AnyTags == {<<>>, Pattern(0, 8), Pattern(0, 16)}

\* C1: the session holds a descriptor exactly when the latest init that
\* returned OK has not been followed by close or destruction: a fresh object
\* holds none; an init that returns OK leaves one, an init that returns an
\* error leaves the descriptor as it was (none, on an Empty session); close,
\* destruction and construction leave none; no other step changes it.
C1_Step ==
  /\ IsInitStep =>
       IF ub' = "aborted" THEN self' = self
       ELSE IF ret' = "OK" THEN self'.interface_ # NULLPTR
       ELSE self'.interface_ = self.interface_ /\ (~HoldsDescriptor => self'.interface_ = NULLPTR)
  /\ (CallClose \/ Destroy \/ Construct) => self'.interface_ = NULLPTR
  /\ ~(IsInitStep \/ CallClose \/ Destroy \/ Construct) => self'.interface_ = self.interface_
C1_Lifecycle == ~HoldsDescriptor /\ [][C1_Step]_vars
C1_Witness == op = "set_key" /\ ret = "OK" /\ HoldsDescriptor /\ self.iv_ # <<>>

\* C2: on an Initialized session init returns ALREADY_INITED for every name
\* and mode, and changes nothing but last_errorno_: descriptor, context
\* pointers, IV, key storage and the back-end contexts stay as they were.
C2_AlreadyInited ==
  (Callable /\ HoldsDescriptor) =>
    \A name \in InitNames, mode \in Modes, nd \in InitOutcomes :
      LET r == init(self, heap, build, registered, name, mode, nd) IN
        /\ r.ret = "ALREADY_INITED"
        /\ r.self = [self EXCEPT !.last_errorno_ = r.self.last_errorno_]
        /\ r.heap = heap
        /\ ~r.ub
C2_Witness == op = "init" /\ ret = "ALREADY_INITED" /\ HoldsDescriptor /\ self.iv_ # <<>>

\* C3: on an Empty session close, set_key, set_iv, encrypt, decrypt,
\* encrypt_aead and decrypt_aead return NOT_INITED, call nothing, and leave
\* the session Empty with the IV it had.
RefusedAsEmpty(r) ==
  /\ r.ret = "NOT_INITED"
  /\ r.calls = <<>>
  /\ r.self.interface_ = NULLPTR
  /\ r.self.iv_ = self.iv_
  /\ r.heap = heap
C3_NotInited ==
  (Callable /\ ~HoldsDescriptor) =>
    /\ RefusedAsEmpty(close(self, heap))
    /\ \A key \in Keys : RefusedAsEmpty(set_key(self, heap, build, key, 8 * Len(key)))
    /\ \A iv \in Ivs : RefusedAsEmpty(set_iv(self, heap, build, iv))
    /\ \A a \in AnyCryptArgs :
         /\ RefusedAsEmpty(encrypt(self, heap, build, a[1], Len(a[1]), a[2]))
         /\ RefusedAsEmpty(decrypt(self, heap, build, a[1], Len(a[1]), a[2]))
         /\ \A ad \in Ads :
              /\ \A tag_len \in TagLens :
                   RefusedAsEmpty(encrypt_aead(self, heap, build, a[1], Len(a[1]), a[2], ad, tag_len))
              /\ \A tag \in AnyTags :
                   RefusedAsEmpty(decrypt_aead(self, heap, build, a[1], Len(a[1]), a[2], ad, tag))
C3_Witness == op = "decrypt_aead" /\ ret = "NOT_INITED" /\ ~HoldsDescriptor /\ self.iv_ # <<>>

\* C4 (as amended): a session that holds no descriptor holds no live
\* back-end context: none is left allocated after close, after destruction
\* or after an init that failed, so a context exists only while the session
\* is Initialized.
C4_NoDescriptorNoContext == ~HoldsDescriptor => NoContext(heap)
\* C4 (as claimed): no descriptor if and only if no live context.
C4_DescriptorIffContext == ~HoldsDescriptor <=> NoContext(heap)
C4_Witness ==
  /\ op = "init" /\ ret \in {"MALLOC", "CIPHER_OPERATION"}
  /\ Len(calls) >= 4
  /\ ~HoldsDescriptor /\ NoContext(heap)

\* C5: after close on an Initialized session the stored IV is empty.
C5_CloseResetsIv == (op = "close" /\ ret # "NOT_INITED") => self.iv_ = <<>>

\* C6 (as amended): close writes 0 into last_errorno_, on an Initialized
\* session and on an Empty one alike.
C6_CloseWritesZero == op = "close" => self.last_errorno_ = 0
\* C6 (as claimed): close leaves last_errorno_ as it was before the call.
C6_CloseKeepsLastError == [][CallClose => self'.last_errorno_ = self.last_errorno_]_vars
C6_Witness == op = "close" /\ ret = "OK" /\ self.last_errorno_ = 0 /\ self.iv_ # <<>>

\* C7: on an Initialized session encrypt and decrypt return
\* MUST_CALL_AEAD_API when the descriptor has the AEAD flag, encrypt_aead and
\* decrypt_aead return MUST_NOT_CALL_AEAD_API when it lacks it, for valid and
\* invalid arguments alike, without calling anything and without touching the
\* object (no IV padding); and no encrypt_aead or decrypt_aead ever called
\* the XXTEA or a stream primitive.
RefusedByGuard(r, code) == r.ret = code /\ r.calls = <<>> /\ r.self = self /\ r.heap = heap
C7_AeadGuard ==
  /\ (Callable /\ HoldsDescriptor) =>
       \A a \in AnyCryptArgs :
         IF "AEAD" \in Flags(self.interface_)
           THEN /\ RefusedByGuard(encrypt(self, heap, build, a[1], Len(a[1]), a[2]),
                                  "MUST_CALL_AEAD_API")
                /\ RefusedByGuard(decrypt(self, heap, build, a[1], Len(a[1]), a[2]),
                                  "MUST_CALL_AEAD_API")
           ELSE \A ad \in Ads :
                  /\ \A tag_len \in TagLens :
                       RefusedByGuard(encrypt_aead(self, heap, build, a[1], Len(a[1]), a[2], ad, tag_len),
                                      "MUST_NOT_CALL_AEAD_API")
                  /\ \A tag \in AnyTags :
                       RefusedByGuard(decrypt_aead(self, heap, build, a[1], Len(a[1]), a[2], ad, tag),
                                      "MUST_NOT_CALL_AEAD_API")
  /\ op \in {"encrypt_aead", "decrypt_aead"} =>
       \A k \in DOMAIN calls : calls[k] \notin {"xxtea_encrypt", "xxtea_decrypt"} \cup StreamPrimitives
C7_Witness ==
  /\ op = "decrypt_aead" /\ ret = "MUST_NOT_CALL_AEAD_API"
  /\ HoldsDescriptor /\ Method(self.interface_) = EN_CIMT_XXTEA

\* C8: an init that returns OK for a CIPHER descriptor with mode m leaves an
\* encrypt context exactly when m has ENCRYPT and a decrypt context exactly
\* when m has DECRYPT, and no other context; while the session stays
\* Initialized the two pointers and the live contexts do not change; a
\* session on an XXTEA or Sodium descriptor has no context.
C8_Step ==
  /\ (op' = "init" /\ ret' = "OK" /\ Method(self'.interface_) = EN_CIMT_CIPHER) =>
       \A name \in names, mode \in Modes, nd \in InitOutcomes :
         CallInit(name, mode, nd) =>
           /\ ContextLive(heap', self'.enc) <=> "ENCRYPT" \in mode
           /\ ContextLive(heap', self'.dec) <=> "DECRYPT" \in mode
           /\ "ENCRYPT" \notin mode => self'.enc = NULLPTR
           /\ "DECRYPT" \notin mode => self'.dec = NULLPTR
           /\ Cardinality({h \in Handles : heap'[h].live}) = Cardinality(mode)
  /\ (HoldsDescriptor /\ self'.interface_ # NULLPTR) =>
       /\ self'.enc = self.enc /\ self'.dec = self.dec
       /\ \A h \in Handles : heap'[h].live = heap[h].live
C8_ContextsFollowMode ==
  /\ [](HoldsDescriptor /\ Method(self.interface_) # EN_CIMT_CIPHER => NoContext(heap))
  /\ [][C8_Step]_vars
C8_Witness ==
  /\ op = "set_key" /\ ret = "OK" /\ Method(self.interface_) = EN_CIMT_CIPHER
  /\ self.enc = NULLPTR /\ ContextLive(heap, self.dec)

\* C9: on a CIPHER session that has no encrypt context (by C8: initialized
\* without ENCRYPT) encrypt, or encrypt_aead on an AEAD descriptor, returns
\* CIPHER_DISABLED for valid arguments and calls nothing; the same holds of
\* decrypt and decrypt_aead on a session that has no decrypt context.
Disabled(r) == r.ret = "CIPHER_DISABLED" /\ r.calls = <<>> /\ r.heap = heap
C9_CipherDisabled ==
  (Callable /\ HoldsDescriptor /\ Method(self.interface_) = EN_CIMT_CIPHER) =>
    \A a \in ValidCryptArgs :
      /\ ~ContextLive(heap, self.enc) =>
           IF "AEAD" \in Flags(self.interface_)
             THEN \A ad \in Ads, tag_len \in TagLens :
                    Disabled(encrypt_aead(self, heap, build, a[1], Len(a[1]), a[2], ad, tag_len))
             ELSE Disabled(encrypt(self, heap, build, a[1], Len(a[1]), a[2]))
      /\ ~ContextLive(heap, self.dec) =>
           IF "AEAD" \in Flags(self.interface_)
             THEN \A ad \in Ads :
                    Disabled(decrypt_aead(self, heap, build, a[1], Len(a[1]), a[2], ad, Pattern(0, 16)))
             ELSE Disabled(decrypt(self, heap, build, a[1], Len(a[1]), a[2]))
C9_Witness ==
  /\ op = "encrypt_aead" /\ ret = "CIPHER_DISABLED" /\ calls = <<>>
  /\ self.enc = NULLPTR /\ ContextLive(heap, self.dec)

\* C10: on a session with both directions, a key and an IV set, encrypting a
\* non-empty p and decrypting what was written, with the key and IV
\* untouched, returns OK both times and writes p back -- through encrypt and
\* decrypt on a descriptor without the AEAD flag, through encrypt_aead and
\* decrypt_aead with the same ad and the tag produced on one with it.
KeyAndIvSet ==
  /\ Callable /\ HoldsDescriptor
  /\ op = "set_iv" /\ ret = "OK"
  /\ Method(self.interface_) = EN_CIMT_CIPHER =>
       /\ ContextLive(heap, self.enc) /\ heap[self.enc].key # <<>>
       /\ ContextLive(heap, self.dec) /\ heap[self.dec].key # <<>>
RoundTrip(p) ==
  LET cap == Len(p) + get_block_size(self) IN
  IF "AEAD" \in Flags(self.interface_)
    THEN \A ad \in Ads :
           LET e == encrypt_aead(self, heap, build, p, Len(p), cap, ad, 16) IN
             /\ e.ret = "OK"
             /\ LET d == decrypt_aead(e.self, e.heap, build, e.out, Len(e.out),
                                      Len(e.out) + get_block_size(e.self), ad, e.tag) IN
                  d.ret = "OK" /\ d.out = p
    ELSE LET e == encrypt(self, heap, build, p, Len(p), cap) IN
           /\ e.ret = "OK"
           /\ LET d == decrypt(e.self, e.heap, build, e.out, Len(e.out),
                               Len(e.out) + get_block_size(e.self)) IN
                d.ret = "OK" /\ d.out = p
C10_RoundTrip == KeyAndIvSet => \A p \in Plains \ {<<>>} : RoundTrip(p)

CryptOps == {"encrypt", "decrypt", "encrypt_aead", "decrypt_aead"}

\* C11: on an Initialized session an encrypt or decrypt that passed the AEAD
\* guard and the parameter check, and was not refused for a missing context,
\* does not return NOT_INITED and has called the primitive of the
\* descriptor's method: the XXTEA routine of its direction, the generic
\* back-end, or the stream-XOR primitive of that very Sodium method.
PrimitiveOf(m, o) ==
  CASE m = EN_CIMT_XXTEA -> {IF o = "encrypt" THEN "xxtea_encrypt" ELSE "xxtea_decrypt"}
    [] m = EN_CIMT_CIPHER -> {"update", "crypt"}
    [] m = EN_CIMT_LIBSODIUM_CHACHA20 -> {"crypto_stream_chacha20_xor_ic"}
    [] m = EN_CIMT_LIBSODIUM_CHACHA20_IETF -> {"crypto_stream_chacha20_ietf_xor_ic"}
    [] m = EN_CIMT_LIBSODIUM_XCHACHA20 -> {"crypto_stream_xchacha20_xor_ic"}
    [] m = EN_CIMT_LIBSODIUM_SALSA20 -> {"crypto_stream_salsa20_xor_ic"}
    [] m = EN_CIMT_LIBSODIUM_XSALSA20 -> {"crypto_stream_xsalsa20_xor_ic"}
    [] OTHER -> {}
C11_Dispatch ==
  (/\ op \in {"encrypt", "decrypt"} /\ HoldsDescriptor
   /\ ret \notin {"MUST_CALL_AEAD_API", "INVALID_PARAM", "CIPHER_DISABLED"}) =>
    /\ ret # "NOT_INITED"
    /\ \E k \in DOMAIN calls : calls[k] \in PrimitiveOf(Method(self.interface_), op)
    /\ \A k \in DOMAIN calls :
         calls[k] \in {"xxtea_encrypt", "xxtea_decrypt"} \cup StreamPrimitives =>
           calls[k] \in PrimitiveOf(Method(self.interface_), op)

\* C12: after encrypt, decrypt, encrypt_aead or decrypt_aead returned OK the
\* caller's olen holds the number of bytes written to the output.
C12_OlenIsWritten == (op \in CryptOps /\ ret = "OK") => out.olen = Len(out.data)

\* C13: after encrypt, decrypt, encrypt_aead or decrypt_aead returned an
\* error the caller's olen holds the value it was passed.
C13_ErrorKeepsOlen == (op \in CryptOps /\ ret # "OK") => out.olen = arg.olen

\* C14: a call that returns an error leaves the descriptor, the live
\* contexts and the keys bound to them, the key storage and the IV as they
\* were before the call.
C14_Step ==
  (ret' # "OK" /\ ub' # "aborted") =>
    /\ self'.interface_ = self.interface_
    /\ self'.key = self.key
    /\ self'.iv_ = self.iv_
    /\ heap' = heap
C14_ErrorKeepsState == [][C14_Step]_vars

\* C15: every method that returns an error_code_t stores into last_errorno_
\* before it returns, whatever it returns: called on the object as it is but
\* with a value in last_errorno_ that no call stores, none leaves that value.
Written(r) == r.self.last_errorno_ # 12345
C15_WritesLastError ==
  Callable =>
    LET marked == [self EXCEPT !.last_errorno_ = 12345] IN
      /\ \A name \in names, mode \in Modes, nd \in InitOutcomes :
           Written(init(marked, heap, build, registered, name, mode, nd))
      /\ Written(close(marked, heap))
      /\ \A key \in Keys : Written(set_key(marked, heap, build, key, 8 * Len(key)))
      /\ \A iv \in Ivs : Written(set_iv(marked, heap, build, iv))
      /\ \A a \in AnyCryptArgs :
           /\ Written(encrypt(marked, heap, build, a[1], Len(a[1]), a[2]))
           /\ Written(decrypt(marked, heap, build, a[1], Len(a[1]), a[2]))
           /\ \A ad \in Ads :
                /\ \A tag_len \in TagLens :
                     Written(encrypt_aead(marked, heap, build, a[1], Len(a[1]), a[2], ad, tag_len))
                /\ \A tag \in AnyTags :
                     Written(decrypt_aead(marked, heap, build, a[1], Len(a[1]), a[2], ad, tag))

\* C16: on an Initialized session whose descriptor lacks VARIABLE_IV_LEN,
\* set_iv with a length other than get_iv_size() returns INVALID_PARAM and
\* leaves the stored IV as it was.
C16_FixedIvLength ==
  (Callable /\ HoldsDescriptor /\ "VARIABLE_IV_LEN" \notin Flags(self.interface_)) =>
    \A iv \in Ivs :
      Len(iv) # get_iv_size(self, build) =>
        LET r == set_iv(self, heap, build, iv) IN
          r.ret = "INVALID_PARAM" /\ r.self.iv_ = self.iv_

\* C17: after set_iv(v) returned OK the stored IV is v; and on a descriptor
\* with VARIABLE_IV_LEN set_iv returns OK for every length.
C17_IvStoredVerbatim ==
  /\ (op = "set_iv" /\ ret = "OK") => self.iv_ = arg.input
  /\ (Callable /\ HoldsDescriptor /\ "VARIABLE_IV_LEN" \in Flags(self.interface_)) =>
       \A iv \in Ivs : set_iv(self, heap, build, iv).ret = "OK"

\* C18: after encrypt, decrypt, encrypt_aead or decrypt_aead reached the
\* back-end of a CIPHER or Sodium descriptor without VARIABLE_IV_LEN, the
\* stored IV has exactly get_iv_size() bytes.
C18_IvHasRequiredSize ==
  (/\ op \in CryptOps /\ calls # <<>> /\ HoldsDescriptor
   /\ Method(self.interface_) >= EN_CIMT_CIPHER
   /\ "VARIABLE_IV_LEN" \notin Flags(self.interface_)) =>
    Len(self.iv_) = get_iv_size(self, build)

\* C19: the lookup init makes returns the compiled entry of lowest index
\* whose name equals the name passed, letter case ignored, and nothing when
\* there is none; an init that returns OK binds the session to that entry,
\* so "chacha20" and "chacha20-poly1305-ietf" bind to the CIPHER entry in a
\* build that compiles both a CIPHER and a Sodium entry of that name.
SameLetters(a, b) ==
  /\ Len(a) = Len(b)
  /\ \A k \in 1..Len(a) :
       \/ a[k] = b[k]
       \/ \E c \in DOMAIN UpperChars : {a[k], b[k]} = {UpperChars[c], LowerChars[c]}
Matching(b, name) ==
  { i \in DOMAIN supported_ciphers_all :
      Compiled(b, i) /\ SameLetters(name, supported_ciphers_all[i].name) }
C19_FirstMatchWins ==
  (op = "init" /\ arg.name # NULLSTR) =>
    LET found == interface_by_name[<<build, arg.name>>]
        all == Matching(build, arg.name)
    IN /\ IF all = {} THEN found = 0
          ELSE found \in all /\ \A j \in all : found <= j
       /\ ret = "OK" => self.interface_ = found
       /\ (ret = "OK" /\ \E j \in all : supported_ciphers_all[j].method = EN_CIMT_CIPHER) =>
            Method(self.interface_) = EN_CIMT_CIPHER
C19_Witness ==
  /\ op = "init" /\ ret = "OK" /\ arg.name \in N_CHACHA20 \cup N_CHACHA20_POLY1305
  /\ Cardinality(Matching(build, arg.name)) = 2
  /\ Method(self.interface_) = EN_CIMT_CIPHER

\* C20: on an Empty session init returns CIPHER_NOT_SUPPORT when the name
\* matches no compiled entry, and when it matches a CIPHER entry whose
\* back-end handle does not resolve; it then creates no context, calls
\* nothing, and leaves the session Empty.
C20_NotSupported ==
  (Callable /\ ~HoldsDescriptor) =>
    \A name \in names \ {NULLSTR}, mode \in Modes, nd \in InitOutcomes :
      LET found == interface_by_name[<<build, name>>]
          r == init(self, heap, build, registered, name, mode, nd)
      IN (\/ Matching(build, name) = {}
          \/ /\ Method(found) = EN_CIMT_CIPHER
             /\ cipher_by_name[<<build, registered, found>>] = 0) =>
           /\ r.ret = "CIPHER_NOT_SUPPORT"
           /\ r.self.interface_ = NULLPTR
           /\ r.heap = heap /\ r.calls = <<>> /\ ~r.ub
C20_Witness ==
  /\ op = "init" /\ ret = "CIPHER_NOT_SUPPORT" /\ arg.name \in N_CBC \cup N_GCM
  /\ ~HoldsDescriptor /\ NoContext(heap) /\ ~registered

\* C21: on an Empty session init with a null name, or with a name of length
\* zero, returns INVALID_PARAM (and the session stays Empty).
C21_EmptyName ==
  (op = "init" /\ arg.name \in {NULLSTR, <<>>} /\ ~HoldsDescriptor) => ret = "INVALID_PARAM"

\* C22: on an Empty session init with the name xxtea, in any letter case,
\* returns OK for every mode, in every build and whether or not the back-end
\* catalogue is registered; it binds the XXTEA entry, creates no context and
\* leaves the 16 bytes of the XXTEA key all zero.
XxteaNames == {<<"x","x","t","e","a">>, <<"X","x","T","e","A">>}
C22_XxteaAlways ==
  (Callable /\ ~HoldsDescriptor) =>
    \A name \in XxteaNames, b \in Builds, reg \in BOOLEAN, mode \in Modes,
       nd \in {o \in InitOutcomes : o.enc = "ok" /\ o.dec = "ok"} :
      LET r == init(self, heap, b, reg, name, mode, nd) IN
        /\ r.ret = "OK" /\ r.calls = <<>>
        /\ r.self.interface_ # NULLPTR /\ Method(r.self.interface_) = EN_CIMT_XXTEA
        /\ \A k \in 1..16 : r.self.key[k] = 0
        /\ r.heap = heap /\ ~r.ub
C22_Witness ==
  /\ op = "init" /\ ret = "OK" /\ arg.name \in XxteaNames
  /\ Method(self.interface_) = EN_CIMT_XXTEA
  /\ \A k \in 1..16 : self.key[k] = 0
  /\ self.key[17] \notin {0, UNINIT}

Entries == { i \in DOMAIN supported_ciphers_all : Compiled(build, i) }
NameOf(i) == supported_ciphers_all[i].name
\* whether the generic back-end has, now, the cipher of CIPHER entry i
HandleResolves(i) ==
  IF build.generic = "openssl"
    THEN EVP_get_cipherbyname(build, registered, LibraryName(i, "openssl")) # 0
    ELSE mbedtls_cipher_info_from_string(build, LibraryName(i, "mbedtls")) # 0
\* the entries whose back-end resolves now: built-in and Sodium entries of
\* the build, and CIPHER entries whose handle resolves
Resolvable ==
  { i \in Entries :
      /\ supported_ciphers_all[i].method \notin {EN_CIMT_INVALID, EN_CIMT_INNER, EN_CIMT_LIBSODIUM}
      /\ supported_ciphers_all[i].method = EN_CIMT_CIPHER => HandleResolves(i) }

\* C23: what a call of get_all_cipher_names returns is the names of the
\* entries whose back-end resolves at that call, in table order: the k-th
\* name is the name of the resolvable entry that has k-1 resolvable entries
\* before it.
C23_Step ==
  GetAllCipherNames =>
    /\ Len(all_cipher_names') = Cardinality(Resolvable)
    /\ \A k \in DOMAIN all_cipher_names' :
         \E i \in Resolvable :
           /\ all_cipher_names'[k] = NameOf(i)
           /\ Cardinality({ j \in Resolvable : j < i }) = k - 1
C23_ListIsResolvable == [][C23_Step]_vars

\* C24: on an Empty session, init with any name that a call of
\* get_all_cipher_names has just returned, and any non-empty mode, returns
\* OK when the back-end refuses no allocation.
C24_Step ==
  (GetAllCipherNames /\ Callable /\ ~HoldsDescriptor) =>
    \A k \in DOMAIN all_cipher_names', mode \in Modes \ {{}} :
      init(self, heap, build, registered, all_cipher_names'[k], mode, NoFailure).ret = "OK"
C24_ListedIsUsable == [][C24_Step]_vars

\* C25: every call of get_all_cipher_names returns what resolves at that
\* call, whatever an earlier call returned: the name of a CIPHER entry (one
\* whose name no other entry has) is in the result exactly when its handle
\* resolves then.
C25_Step ==
  GetAllCipherNames =>
    \A i \in Entries :
      (/\ supported_ciphers_all[i].method = EN_CIMT_CIPHER
       /\ \A j \in Entries : NameOf(j) = NameOf(i) => j = i) =>
        ((\E k \in DOMAIN all_cipher_names' : all_cipher_names'[k] = NameOf(i)) <=> HandleResolves(i))
C25_EachCallReflectsNow == [][C25_Step]_vars

C27_KeyLengthChecked ==
  (Callable /\ HoldsDescriptor /\ Method(self.interface_) = EN_CIMT_CIPHER) =>
    \A key \in Keys :
      LET r == set_key(self, heap, build, key, 8 * Len(key))
          bits == get_key_bits(self, build)
      IN /\ 8 * Len(key) < bits => (r.ret = "INVALID_PARAM" /\ r.heap = heap)
         /\ 8 * Len(key) > bits =>
              /\ r.ret = "OK"
              /\ \A p \in {self.enc, self.dec} \ {NULLPTR} : r.heap[p].key = Prefix(key, bits \div 8)

\* C28: on an Initialized XXTEA or Sodium session set_key returns OK for
\* every key length; afterwards the first min(key_bitlen / 8, capacity)
\* bytes of the key storage are the first bytes of the key, and no byte of
\* the storage comes from beyond the key_bitlen / 8 bytes of the caller's
\* key (a byte read from there is UNINIT).
KeyCapacity(ci) == IF Method(ci.interface_) = EN_CIMT_XXTEA THEN XXTEA_KEY_BYTES ELSE LIBSODIUM_KEY_BYTES
C28_KeyStored ==
  (Callable /\ HoldsDescriptor
     /\ (Method(self.interface_) = EN_CIMT_XXTEA \/ IsSodium(Method(self.interface_)))) =>
    \A key \in Keys :
      LET r == set_key(self, heap, build, key, 8 * Len(key))
          n == IF Len(key) < KeyCapacity(self) THEN Len(key) ELSE KeyCapacity(self)
      IN /\ r.ret = "OK"
         /\ \A k \in 1..n : r.self.key[k] = key[k]
         /\ \A k \in DOMAIN r.self.key : r.self.key[k] = UNINIT => self.key[k] = UNINIT
C28_Witness ==
  /\ op = "set_key" /\ ret = "OK" /\ IsSodium(Method(self.interface_))
  /\ Len(arg.input) = 8
  /\ \A k \in 1..8 : self.key[k] = arg.input[k]
  /\ self.key[9] = 0

\* C29: on a session with a Sodium AEAD descriptor, encrypt_aead and
\* decrypt_aead called with parameters that pass the buffer check and a
\* tag_len below crypto_aead_*_ABYTES (16 for the three algorithms) return
\* LIBSODIUM_OPERATION_TAG_LEN, call no primitive and write no output, no
\* tag and no olen; with a tag_len of 16 or more they never return it.
C29_TagLenChecked ==
  (/\ op \in {"encrypt_aead", "decrypt_aead"} /\ HoldsDescriptor
   /\ IsSodiumAead(Method(self.interface_))
   /\ arg.input \notin {<<>>, NULLBUF}
   /\ arg.olen >= Len(arg.input) + get_block_size(self)) =>
    /\ arg.tag_len < 16 =>
         /\ ret = "LIBSODIUM_OPERATION_TAG_LEN"
         /\ calls = <<>>
         /\ out = [data |-> <<>>, olen |-> arg.olen, tag |-> <<>>]
    /\ arg.tag_len >= 16 => ret # "LIBSODIUM_OPERATION_TAG_LEN"
C29_Witness ==
  /\ op = "encrypt_aead" /\ ret = "LIBSODIUM_OPERATION_TAG_LEN"
  /\ IsSodiumAead(Method(self.interface_))
  /\ arg.tag_len = 8 /\ calls = <<>> /\ out.data = <<>>

\* C30: on an Initialized session, encrypt and decrypt with a non-AEAD
\* descriptor and encrypt_aead and decrypt_aead with an AEAD descriptor
\* return INVALID_PARAM, call no primitive and write nothing whenever the
\* output capacity is below the input length plus get_block_size(); and
\* they never return INVALID_PARAM for a non-null, non-empty input with a
\* capacity of at least that.
C30_CapacityChecked ==
  (/\ op \in CryptOps /\ HoldsDescriptor
   /\ (is_aead(self) <=> op \in {"encrypt_aead", "decrypt_aead"})) =>
    /\ (arg.input # NULLBUF /\ arg.olen < Len(arg.input) + get_block_size(self)) =>
         /\ ret = "INVALID_PARAM"
         /\ calls = <<>>
         /\ out = [data |-> <<>>, olen |-> arg.olen, tag |-> <<>>]
    /\ (arg.input \notin {<<>>, NULLBUF} /\ arg.olen >= Len(arg.input) + get_block_size(self)) =>
         ret # "INVALID_PARAM"
C30_Witness ==
  /\ op = "encrypt" /\ ret = "INVALID_PARAM" /\ HoldsDescriptor
  /\ get_block_size(self) = 16
  /\ Len(arg.input) = 16 /\ arg.olen = 31
  /\ calls = <<>> /\ out.data = <<>>

\* the positions of the string from p on that hold no delimiter
Delimiters == {" ", "\t", "\r", "\n", ",", ";", ":"}
TokenChars(p) == { q \in p..Len(tok.str) : tok.str[q] \notin Delimiters }
\* the first position at or after p that holds a delimiter or the terminator
TokenEnd(p) ==
  CHOOSE e \in p..(Len(tok.str) + 1) :
    /\ e = Len(tok.str) + 1 \/ tok.str[e] \in Delimiters
    /\ \A q \in p..(e - 1) : tok.str[q] \notin Delimiters
Least(S) == CHOOSE x \in S : \A y \in S : x <= y

\* C31: a call of ciphertok returns (NULL, NULL) exactly when its input is
\* NULL, empty or made of delimiters only; otherwise it returns the range
\* that begins at the first character that is no delimiter and ends at the
\* first delimiter or terminator after it, a range that is not empty and
\* holds no delimiter.
C31_TokenRange ==
  tok.called =>
    IF tok.passed = NULLPOS \/ TokenChars(tok.passed) = {}
      THEN tok.first = NULLPOS /\ tok.second = NULLPOS
      ELSE /\ tok.first = Least(TokenChars(tok.passed))
           /\ tok.second = TokenEnd(tok.first)
           /\ tok.second > tok.first
           /\ \A q \in tok.first..(tok.second - 1) : tok.str[q] \notin Delimiters
C31_Witness ==
  /\ tok.called /\ tok.passed = 1
  /\ tok.str = <<":", "a", "b", ";">>
  /\ tok.first = 2 /\ tok.second = 4

\* where the maximal runs of characters that are no delimiters begin
RunStarts ==
  { p \in 1..Len(tok.str) :
      /\ tok.str[p] \notin Delimiters
      /\ p = 1 \/ tok.str[p - 1] \in Delimiters }
\* C32: the iteration reaches a call that returns (NULL, NULL); the ranges
\* returned until then are the maximal runs of characters that are no
\* delimiters, each once and in order; and each call begins at or after
\* the end the call before it returned.
C32_RunsInOrder ==
  /\ tok.done =>
       /\ Len(tok.ranges) = Cardinality(RunStarts)
       /\ \A k \in DOMAIN tok.ranges :
            /\ tok.ranges[k][1] \in RunStarts
            /\ Cardinality({ p \in RunStarts : p < tok.ranges[k][1] }) = k - 1
            /\ tok.ranges[k][2] = TokenEnd(tok.ranges[k][1])
  /\ \A k \in DOMAIN tok.ranges : k > 1 => tok.ranges[k][1] >= tok.ranges[k - 1][2]
C32_Iteration == <>tok.done /\ []C32_RunsInOrder
C32_Witness ==
  /\ tok.done /\ tok.str = <<"a", ",", " ", "b">>
  /\ tok.ranges = << <<1, 2>>, <<4, 5>> >>

\* C33: when a Sodium stream primitive has run on an IV that holds the
\* counter and the nonce, the block counter it was given is the 64-bit
\* little-endian value of IV bytes 0..7 (digit k of the counter is byte k,
\* nothing lost, nothing sign-extended) and the nonce is the IV from byte 8
\* on: the output is the input XORed with the keystream of that key, nonce
\* and counter.
IvBytes(from, n) == [k \in 1..n |-> self.iv_[from + k]]
C33_CounterIsLittleEndian ==
  (/\ op \in {"encrypt", "decrypt"} /\ ret = "OK" /\ HoldsDescriptor
   /\ Len(calls) = 1 /\ calls[1] \in StreamPrimitives
   /\ Len(self.iv_) >= LIBSODIUM_COUNTER_SIZE + stream_nonce_bytes(calls[1])) =>
    /\ libsodium_get_block(self.iv_, 0) = IvBytes(0, 4)
    /\ libsodium_get_block(self.iv_, 4) = IvBytes(4, 4)
    /\ libsodium_get_counter(self.iv_) = IvBytes(0, 8)
    /\ out.data = stream_xor(arg.input,
                             Keystream(self.key,
                                       IvBytes(LIBSODIUM_COUNTER_SIZE, stream_nonce_bytes(calls[1])),
                                       IvBytes(0, 8)))
C33_Witness ==
  /\ op = "encrypt" /\ ret = "OK" /\ calls = <<"crypto_stream_chacha20_xor_ic">>
  /\ Len(self.iv_) = 16 /\ self.iv_[4] >= 128 /\ self.iv_[8] >= 128
  /\ libsodium_get_counter(self.iv_) = IvBytes(0, 8)
  /\ out.data # <<>>

\* where the back-end call c stands among the calls of the last method (0:
\* it was not made)
CallPos(c) == IF \E k \in DOMAIN calls : calls[k] = c
                THEN CHOOSE k \in DOMAIN calls : calls[k] = c ELSE 0
CalledBefore(a, b) == (CallPos(a) # 0 /\ CallPos(b) # 0) => CallPos(a) < CallPos(b)
CalledOnce(c) == Cardinality({ k \in DOMAIN calls : calls[k] = c }) <= 1
EvpAeadCalls == {"set_ivlen", "set_iv", "set_tag", "update_ad", "update", "final", "get_tag"}

\* C34: within one AEAD call on the EVP-style back-end the calls come in the
\* order IV length, IV, associated data, data, finalize, each at most once;
\* the IV length is announced only with VARIABLE_IV_LEN and an IV that is
\* not empty, the associated data passed only when there is some; encrypt
\* reads the tag only after a finalize, decrypt sets the tag before any
\* update and before finalize; a call that returns OK has bound the IV,
\* updated and finalized.
C34_BackEndCallOrder ==
  (/\ op \in {"encrypt_aead", "decrypt_aead"} /\ HoldsDescriptor
   /\ Method(self.interface_) = EN_CIMT_CIPHER /\ build.generic = "openssl") =>
    /\ \A c \in EvpAeadCalls : CalledOnce(c)
    /\ CalledBefore("set_ivlen", "set_iv")
    /\ \A c \in {"update_ad", "update", "final"} : CalledBefore("set_iv", c)
    /\ CalledBefore("update_ad", "update")
    /\ CalledBefore("update", "final")
    /\ CallPos("set_ivlen") # 0 => ("VARIABLE_IV_LEN" \in Flags(self.interface_) /\ self.iv_ # <<>>)
    /\ CallPos("update_ad") # 0 => arg.ad # <<>>
    /\ CallPos("final") # 0 => CallPos("update") # 0
    /\ op = "encrypt_aead" =>
         /\ CallPos("set_tag") = 0
         /\ CallPos("get_tag") # 0 => (CallPos("final") # 0 /\ CallPos("final") < CallPos("get_tag"))
    /\ op = "decrypt_aead" =>
         /\ CallPos("get_tag") = 0
         /\ \A c \in {"update_ad", "update", "final"} : CalledBefore("set_tag", c)
         /\ CalledBefore("set_iv", "set_tag")
    /\ ret = "OK" => (CallPos("set_iv") # 0 /\ CallPos("update") # 0 /\ CallPos("final") # 0)
C34_Witness ==
  /\ op = "decrypt_aead" /\ ret = "OK" /\ build.generic = "openssl"
  /\ Method(self.interface_) = EN_CIMT_CIPHER
  /\ arg.ad # <<>>
  /\ CallPos("set_ivlen") = 1 /\ CallPos("set_iv") = 2 /\ CallPos("set_tag") = 3
  /\ CallPos("update_ad") > 3 /\ CallPos("final") = Len(calls)

\* C35: whatever the interleaving of the threads that call
\* get_all_cipher_names, each of them gets the list a call on its own
\* returns: the names that resolve, in table order, each entry once.
C35_ThreadsSeeTheList ==
  \A t \in Threads :
    (threads[t].pc = "outside" /\ threads[t].seen # <<>>) =>
      threads[t].seen = scan_names(build, registered, 1)

\* C36: the list get_all_cipher_names returns holds no name twice.
C36_NoNameTwice ==
  \A j, k \in DOMAIN all_cipher_names :
    all_cipher_names[j] = all_cipher_names[k] => j = k

SodiumCalls == StreamPrimitives \cup {"aead_encrypt_detached", "aead_decrypt_detached"}
\* C37: whenever a Sodium stream or AEAD primitive has been invoked, the
\* stored IV holds at least get_iv_size() bytes: the 8 counter bytes and the
\* nonce of a stream method, the NPUBBYTES of an AEAD method; the primitive
\* reads no byte beyond the IV.
C37_IvCoversReads ==
  (/\ op \in CryptOps /\ HoldsDescriptor /\ IsSodium(Method(self.interface_))
   /\ \E k \in DOMAIN calls : calls[k] \in SodiumCalls) =>
    /\ Len(self.iv_) >= get_iv_size(self, build)
    /\ \A k \in DOMAIN calls :
         calls[k] \in StreamPrimitives =>
           /\ Len(self.iv_) >= LIBSODIUM_COUNTER_SIZE + stream_nonce_bytes(calls[k])
           /\ \A n \in 0..(LIBSODIUM_COUNTER_SIZE + stream_nonce_bytes(calls[k]) - 1) :
                At(self.iv_, n) # UNINIT
    /\ IsSodiumAead(Method(self.interface_)) =>
         /\ Len(self.iv_) >= sodium_nonce_bytes(Method(self.interface_))
         /\ \A n \in 0..(sodium_nonce_bytes(Method(self.interface_)) - 1) : At(self.iv_, n) # UNINIT
C37_Witness ==
  /\ op = "encrypt" /\ ret = "OK" /\ calls = <<"crypto_stream_chacha20_xor_ic">>
  /\ self.iv_ = Zeros(16)

\* C38: on an XXTEA or Sodium session the key storage after set_key depends
\* only on that call's key: had the session received any other set_key
\* before, the same last set_key would leave the same key storage.
C38_LastSetKeyDecides ==
  (Callable /\ HoldsDescriptor
     /\ (Method(self.interface_) = EN_CIMT_XXTEA \/ IsSodium(Method(self.interface_)))) =>
    \A earlier \in Keys, key \in Keys :
      set_key(set_key(self, heap, build, earlier, 8 * Len(earlier)).self,
              heap, build, key, 8 * Len(key)).self.key
        = set_key(self, heap, build, key, 8 * Len(key)).self.key

\* the back-end calls named c that the last method made
CallCount(cs, c) == Cardinality({ k \in DOMAIN cs : cs[k] = c })
LiveContexts(hp) == Cardinality({ h \in Handles : hp[h].live })
\* C39: the session releases only contexts it created, each once: a step
\* never passes a pointer that was never assigned to the back-end's release
\* function, and the contexts live after a method are those live before
\* it, plus those it created, less one for every release it made.
C39_Step ==
  /\ ub' = "none"
  /\ <<op', arg', ret', calls', self', heap'>> # <<op, arg, ret, calls, self, heap>> =>
       LiveContexts(heap') =
         LiveContexts(heap) + CallCount(calls', "ctx_init") - CallCount(calls', "ctx_free")
C39_ReleasesOnlyOwn == [][C39_Step]_vars

\* C40: a crypt call that returns OK leaves the key storage and the keys
\* bound to the contexts as they were, and the IV as it was or padded with
\* zero bytes up to get_iv_size(); and on an XXTEA or Sodium stream session
\* the same encrypt call made again returns OK with the same output.
C40_Step ==
  (op' \in CryptOps /\ ret' = "OK" /\ alive') =>
    /\ self'.key = self.key
    /\ heap' = heap
    /\ \/ self'.iv_ = self.iv_
       \/ /\ Len(self.iv_) < Len(self'.iv_)
          /\ Len(self'.iv_) = get_iv_size(self', build)
          /\ \A k \in DOMAIN self'.iv_ :
               self'.iv_[k] = IF k <= Len(self.iv_) THEN self.iv_[k] ELSE 0
    /\ (/\ op' = "encrypt"
        /\ \/ Method(self'.interface_) = EN_CIMT_XXTEA
           \/ IsSodiumStream(Method(self'.interface_))) =>
         \E r \in {encrypt(self', heap', build, arg'.input, Len(arg'.input), arg'.olen)} :
           r.ret = "OK" /\ r.out = out'.data /\ r.self = self'
C40_KeyAndIvKept == [][C40_Step]_vars
C40_Witness ==
  /\ op = "encrypt" /\ ret = "OK" /\ IsSodiumStream(Method(self.interface_))
  /\ Len(arg.input) = 16 /\ self.iv_ = Zeros(16) /\ self.key # Zeros(LIBSODIUM_KEY_BYTES)
  /\ encrypt(self, heap, build, arg.input, 16, arg.olen).out = out.data

====
